---------------------------- MODULE Spec2Model ----------------------------
(***************************************************************************)
(* IndexedCrate (src/indexed_crate.rs): the visibility forest of a rustdoc *)
(* snapshot, the enumeration of the importable paths of an item, and the   *)
(* indices derived from them.                                              *)
(*                                                                         *)
(* An Option<T> of the source is a sequence of length at most one:         *)
(* <<>> is None and <<x>> is Some(x).  An Id is a natural number, ordered  *)
(* as the source orders the Id strings.  A HashMap is a function on the    *)
(* set of its keys, a HashSet is a set.                                    *)
(***************************************************************************)
EXTENDS Integers, Sequences, FiniteSets, Bags, TLC

VARIABLES
    inner,                            \* IndexedCrate.inner: the snapshot (&Crate)
    pc,                               \* where the program is
    parents,                          \* compute_parent_ids_for_public_items: result
    currently_visited_items,          \* its path-local visited set
    visit_frames,                     \* active calls of visit_root_reachable_public_items
    visibility_forest,                \* IndexedCrate.visibility_forest
    manually_inlined_builtin_traits,  \* IndexedCrate.manually_inlined_builtin_traits
    imports_index,                    \* IndexedCrate.imports_index
    impl_index,                       \* IndexedCrate.impl_index
    pending_items,                    \* items IndexedCrate::new still has to index
    call_id,                          \* argument of the running publicly_importable_names
    already_visited_ids,              \* its visited set
    stack,                            \* its name stack
    output,                           \* its result vector
    collect_frames,                   \* active calls of collect_publicly_importable_names
    last_call,                        \* the previous completed call and what it returned
    calls_made                        \* completed publicly_importable_names calls

vars == <<inner, pc, parents, currently_visited_items, visit_frames,
          visibility_forest, manually_inlined_builtin_traits, imports_index,
          impl_index, pending_items, call_id, already_visited_ids, stack,
          output, collect_frames, last_call, calls_made>>

---------------------------------------------------------------------------
(* Sequences and options *)

None == <<>>

Some(x) == <<x>>

IsSome(o) == Len(o) > 0

Unwrap(o) == o[1]

Last(s) == s[Len(s)]

ButLast(s) == SubSeq(s, 1, Len(s) - 1)

Range(s) == {s[i] : i \in 1..Len(s)}

Reverse(s) == [i \in 1..Len(s) |-> s[Len(s) + 1 - i]]

Min(S) == CHOOSE x \in S : \A y \in S : x <= y

\* values.sort_unstable_by_key(|x| &x.0): the ids of a set in increasing order
RECURSIVE SortedById(_)
SortedById(S) ==
    IF S = {} THEN <<>>
    ELSE <<Min(S)>> \o SortedById(S \ {Min(S)})

\* HashMap::entry(key).or_default()
OrDefault(map, key, default) ==
    IF key \in DOMAIN map THEN map ELSE (key :> default) @@ map

---------------------------------------------------------------------------
(* rustdoc_types: the items of a snapshot *)

Item(id, name, visibility, payload) ==
    [id |-> id, name |-> name, visibility |-> visibility, inner |-> payload]

Module(items) == [kind |-> "Module", items |-> items]

Import(name, id, glob) == [kind |-> "Import", name |-> name, id |-> id, glob |-> glob]

\* struct_kind is "Unit", "Tuple" (fields: Option<Id> each) or "Plain" (fields: Id each)
Struct(struct_kind, fields, impls, generics) ==
    [kind |-> "Struct", struct_kind |-> struct_kind, fields |-> fields,
     impls |-> impls, generics |-> generics]

Enum(variants, impls, generics) ==
    [kind |-> "Enum", variants |-> variants, impls |-> impls, generics |-> generics]

Union(fields, impls, generics) ==
    [kind |-> "Union", fields |-> fields, impls |-> impls, generics |-> generics]

Trait(items, generics, bounds, is_auto, is_unsafe) ==
    [kind |-> "Trait", items |-> items, generics |-> generics, bounds |-> bounds,
     is_auto |-> is_auto, is_unsafe |-> is_unsafe]

\* trait_ is Option<Path>, a Path being [name, id]
Impl(items, trait_, provided_trait_methods) ==
    [kind |-> "Impl", items |-> items, trait_ |-> trait_,
     provided_trait_methods |-> provided_trait_methods]

Typedef(type_, generics) == [kind |-> "Typedef", type_ |-> type_, generics |-> generics]

\* the kinds without children: Function, Variant, StructField, Constant, AssocConst
Leaf(kind) == [kind |-> kind]

\* Type::ResolvedPath(Path {id, args}); args is Option<GenericArgs>
ResolvedPath(id, args) == [tag |-> "ResolvedPath", id |-> id, args |-> args]

\* every other Type: Generic(name), Primitive(name), Tuple, ...
OtherType(tag, name) == [tag |-> tag, name |-> name]

AngleBracketed(args, bindings) ==
    [tag |-> "AngleBracketed", args |-> args, bindings |-> bindings]

\* GenericArg::Lifetime(name) | Type(type) | Const(expr) | Infer
GenericArg(tag, value) == [tag |-> tag, value |-> value]

\* GenericParamDef {name, kind}; kind is Lifetime | Type {default} | Const {type_, default}
GenericParamDef(name, tag, type_, default) ==
    [name |-> name, kind |-> [tag |-> tag, type_ |-> type_, default |-> default]]

\* Crate {root, index, paths}
Crate(root, index, paths) == [root |-> root, index |-> index, paths |-> paths]

\* crate_.index.get(id)
IndexGet(crate_, id) ==
    IF id \in DOMAIN crate_.index THEN Some(crate_.index[id]) ELSE None

\* ids.iter().filter_map(|id| crate_.index.get(id)), as the ids found
RECURSIVE FilterPresent(_, _)
FilterPresent(crate_, ids) ==
    IF ids = <<>> THEN <<>>
    ELSE (IF Head(ids) \in DOMAIN crate_.index THEN <<Head(ids)>> ELSE <<>>)
         \o FilterPresent(crate_, Tail(ids))

\* the concatenation of a sequence of sequences
RECURSIVE Flatten(_)
Flatten(seqs) ==
    IF seqs = <<>> THEN <<>>
    ELSE Head(seqs) \o Flatten(Tail(seqs))

\* field_ids.iter().filter_map(|x| x.as_ref()) of a tuple struct
FlattenOptions(opts) == Flatten(opts)

\* Generics {params, where_predicates}: the where predicates are never read
Generics(params) == [params |-> params]

---------------------------------------------------------------------------
(* get_typedef_equivalent_reexport_target *)

\* mutant of TypedefParamMatches: the argument's name is not compared with the
\* alias's parameter
TypedefParamMatchesAnyName(ty_generic, underlying_param, arg_generic) ==
    LET named ==
            \/ arg_generic.tag = "Lifetime"
            \/ arg_generic.tag = "Type" /\ arg_generic.value.tag = "Generic"
            \/ arg_generic.tag = "Const"
        tk == ty_generic.kind
        uk == underlying_param.kind
    IN  /\ named
        /\ \/ tk.tag = "Lifetime" /\ uk.tag = "Lifetime"
           \/ tk.tag = "Type" /\ uk.tag = "Type" /\ tk.default = uk.default
           \/ /\ tk.tag = "Const" /\ uk.tag = "Const"
              /\ tk.default = uk.default
              /\ tk.type_ = uk.type_

\* mutant of TypedefParamMatches: the argument's name is compared with the
\* target's parameter, not with the alias's
TypedefParamMatchesTargetName(ty_generic, underlying_param, arg_generic) ==
    LET named ==
            \/ arg_generic.tag = "Lifetime"
            \/ arg_generic.tag = "Type" /\ arg_generic.value.tag = "Generic"
            \/ arg_generic.tag = "Const"
        arg_generic_name ==
            IF arg_generic.tag = "Type" THEN arg_generic.value.name
            ELSE arg_generic.value
        tk == ty_generic.kind
        uk == underlying_param.kind
    IN  /\ named
        /\ underlying_param.name = arg_generic_name
        /\ \/ tk.tag = "Lifetime" /\ uk.tag = "Lifetime"
           \/ tk.tag = "Type" /\ uk.tag = "Type" /\ tk.default = uk.default
           \/ /\ tk.tag = "Const" /\ uk.tag = "Const"
              /\ tk.default = uk.default
              /\ tk.type_ = uk.type_

\* mutant of TypedefParamMatches: the defaults of type parameters are not
\* compared
TypedefParamMatchesAnyTypeDefault(ty_generic, underlying_param, arg_generic) ==
    LET named ==
            \/ arg_generic.tag = "Lifetime"
            \/ arg_generic.tag = "Type" /\ arg_generic.value.tag = "Generic"
            \/ arg_generic.tag = "Const"
        arg_generic_name ==
            IF arg_generic.tag = "Type" THEN arg_generic.value.name
            ELSE arg_generic.value
        tk == ty_generic.kind
        uk == underlying_param.kind
    IN  /\ named
        /\ ty_generic.name = arg_generic_name
        /\ \/ tk.tag = "Lifetime" /\ uk.tag = "Lifetime"
           \/ tk.tag = "Type" /\ uk.tag = "Type"
           \/ /\ tk.tag = "Const" /\ uk.tag = "Const"
              /\ tk.default = uk.default
              /\ tk.type_ = uk.type_

\* one round of the loop over (ty_generic, (underlying_param, arg_generic)):
\* FALSE where the source returns None
TypedefParamMatches(ty_generic, underlying_param, arg_generic) ==
    LET named ==
            \/ arg_generic.tag = "Lifetime"
            \/ arg_generic.tag = "Type" /\ arg_generic.value.tag = "Generic"
            \/ arg_generic.tag = "Const"
        arg_generic_name ==
            IF arg_generic.tag = "Type" THEN arg_generic.value.name
            ELSE arg_generic.value
        tk == ty_generic.kind
        uk == underlying_param.kind
    IN  /\ named
        /\ ty_generic.name = arg_generic_name
        /\ \/ tk.tag = "Lifetime" /\ uk.tag = "Lifetime"
           \/ tk.tag = "Type" /\ uk.tag = "Type" /\ tk.default = uk.default
           \/ /\ tk.tag = "Const" /\ uk.tag = "Const"
              /\ tk.default = uk.default
              /\ tk.type_ = uk.type_

\* mutant of GetTypedefEquivalentReexportTarget: no alias counts as a re-export
GetTypedefEquivalentReexportTargetNone(crate_, ty) ==
    [panic |-> FALSE, target |-> None]

\* [panic, target]: target is the Option<&Item> returned, as the item's id;
\* panic is the unreachable!("unexpected underlying item kind")
GetTypedefEquivalentReexportTarget(crate_, ty) ==
    LET none == [panic |-> FALSE, target |-> None]
    IN  IF ty.type_.tag # "ResolvedPath" THEN none
        ELSE IF ty.type_.id \notin DOMAIN crate_.index THEN none
        ELSE
          LET underlying == crate_.index[ty.type_.id]
              found == [panic |-> FALSE, target |-> Some(underlying.id)]
          IN  IF ~(IsSome(ty.type_.args)
                   /\ Unwrap(ty.type_.args).tag = "AngleBracketed")
              THEN found
              ELSE
                LET args == Unwrap(ty.type_.args).args
                    bindings == Unwrap(ty.type_.args).bindings
                IN  IF bindings # <<>> THEN none
                    ELSE IF underlying.inner.kind \notin
                              {"Struct", "Enum", "Trait", "Union", "Typedef"}
                    THEN [panic |-> TRUE, target |-> None]
                    ELSE
                      LET up == underlying.inner.generics.params
                          tp == ty.generics.params
                      IN  IF Len(tp) # Len(args) THEN none
                          ELSE IF Len(up) # Len(args) THEN none
                          ELSE IF \A i \in 1..Len(args) :
                                    TypedefParamMatches(tp[i], up[i], args[i])
                          THEN found
                          ELSE none

---------------------------------------------------------------------------
(* visit_root_reachable_public_items *)

\* mutant of PassesVisibilityFilter: pub(crate) counts as public on every item
PassesVisibilityFilterCrateIsPublic(item) ==
    CASE item.visibility = "Crate" -> TRUE
      [] item.visibility = "Restricted" -> FALSE
      [] item.visibility = "Public" -> TRUE
      [] item.visibility = "Default" -> TRUE

\* the match on item.visibility: TRUE where the function goes on
PassesVisibilityFilter(item) ==
    CASE item.visibility = "Crate" -> item.inner.kind = "Impl"
      [] item.visibility = "Restricted" -> FALSE
      [] item.visibility = "Public" -> TRUE
      [] item.visibility = "Default" -> TRUE

\* the field ids of a struct, by StructKind
StructFieldIds(struct_) ==
    CASE struct_.struct_kind = "Unit" -> <<>>
      [] struct_.struct_kind = "Tuple" -> FlattenOptions(struct_.fields)
      [] struct_.struct_kind = "Plain" -> struct_.fields

\* mutant of GlobInnerIds: a glob import of a module brings in nothing
GlobInnerIdsEnumsOnly(imported_item) ==
    CASE imported_item.inner.kind = "Module" -> [panic |-> FALSE, ids |-> <<>>]
      [] imported_item.inner.kind = "Enum" ->
            [panic |-> FALSE, ids |-> imported_item.inner.variants]
      [] OTHER -> [panic |-> TRUE, ids |-> <<>>]

\* the contents a glob import brings in: [panic, ids]
GlobInnerIds(imported_item) ==
    CASE imported_item.inner.kind = "Module" ->
            [panic |-> FALSE, ids |-> imported_item.inner.items]
      [] imported_item.inner.kind = "Enum" ->
            [panic |-> FALSE, ids |-> imported_item.inner.variants]
      [] OTHER -> [panic |-> TRUE, ids |-> <<>>]

\* mutant of ImportNextParentId: the import passes its own parent down
ImportNextParentIdOwnParent(item, parent_id) == parent_id

\* mutant of ImportNextParentId: the import passes no parent down
ImportNextParentIdNone(item, parent_id) == None

\* the parent a non-glob import passes down with its target (next_parent_id)
ImportNextParentId(item, parent_id) == Some(item.id)

\* mutant of GlobNextParentId: the glob import passes itself down
GlobNextParentIdItself(item, parent_id) == Some(item.id)

\* the parent a glob import passes down with the contents of its target
GlobNextParentId(item, parent_id) == parent_id

\* the match on item.inner: the items the function recurses into, in order, and
\* the parent id it passes with them; panic is an unreachable!() of the match
RecurseInto(crate_, item, parent_id) ==
    LET k == item.inner.kind
        next_parent_id == Some(item.id)
        into(ids) == [panic |-> FALSE, ids |-> FilterPresent(crate_, ids),
                      parent_id |-> next_parent_id]
    IN  CASE k = "Module" -> into(item.inner.items)
          [] k = "Import" ->
                IF ~(IsSome(item.inner.id) /\ Unwrap(item.inner.id) \in DOMAIN crate_.index)
                THEN into(<<>>)
                ELSE IF item.inner.glob
                THEN LET g == GlobInnerIds(crate_.index[Unwrap(item.inner.id)])
                     IN  [panic |-> g.panic, ids |-> FilterPresent(crate_, g.ids),
                          parent_id |-> GlobNextParentId(item, parent_id)]
                ELSE [panic |-> FALSE, ids |-> item.inner.id,
                      parent_id |-> ImportNextParentId(item, parent_id)]
          [] k = "Struct" -> into(StructFieldIds(item.inner) \o item.inner.impls)
          [] k = "Enum" -> into(item.inner.variants \o item.inner.impls)
          [] k = "Union" -> into(item.inner.fields \o item.inner.impls)
          [] k = "Trait" -> into(item.inner.items)
          [] k = "Impl" -> into(item.inner.items)
          [] k = "Typedef" ->
                LET t == GetTypedefEquivalentReexportTarget(crate_, item.inner)
                IN  [panic |-> t.panic, ids |-> t.target, parent_id |-> next_parent_id]
          [] OTHER -> into(<<>>)

\* mutant of RecordParent: only the first parent of an item is kept
RecordParentFirstOnly(map, id, parent_id) ==
    IF id \in DOMAIN map /\ map[id] # {} THEN map
    ELSE LET with == OrDefault(map, id, {})
         IN  [with EXCEPT ![id] = @ \cup Range(parent_id)]

\* parents.entry(&item.id).or_default(), then the insert of the parent id
RecordParent(map, id, parent_id) ==
    LET with == OrDefault(map, id, {})
    IN  [with EXCEPT ![id] = @ \cup Range(parent_id)]

\* mutant of VisitCycle: no cycle guard, an item under visit is visited again
VisitCycleNever(visited, id) == FALSE

\* the cycle guard: TRUE where currently_visited_items.insert(&item.id) is false
VisitCycle(visited, id) == id \in visited

\* One call of visit_root_reachable_public_items up to its first recursive call,
\* or to its return when it makes none: st is [parents, visited, frames, panic].
VisitEnter(crate_, st, id, parent_id) ==
    LET item == crate_.index[id]
        recorded == RecordParent(st.parents, id, parent_id)
        r == RecurseInto(crate_, item, parent_id)
    IN  IF ~PassesVisibilityFilter(item) THEN st
        ELSE IF VisitCycle(st.visited, id) THEN [st EXCEPT !.parents = recorded]
        ELSE [parents |-> recorded,
              visited |-> st.visited \cup {id},
              frames |-> Append(st.frames,
                                [id |-> id, todo |-> r.ids, parent_id |-> r.parent_id]),
              panic |-> r.panic]

---------------------------------------------------------------------------
(* collect_publicly_importable_names *)

\* mutant of NotAModule: structs, unions and impls are entered like modules
NotAModuleNever(item, names) == FALSE

\* mutant of NotAModule: enums are pruned like structs
NotAModuleEnumToo(item, names) ==
    /\ names # <<>>
    /\ item.inner.kind \in {"Impl", "Struct", "Union", "Enum"}

\* the struct / union / impl test: TRUE where the function returns at once
NotAModule(item, names) ==
    /\ names # <<>>
    /\ item.inner.kind \in {"Impl", "Struct", "Union"}

\* mutant of NamesOnEntry: an alias pushes its name and pops nothing
NamesOnEntryAliasKeepsName(item, names) ==
    LET k == item.inner.kind
    IN  CASE k = "Import" /\ item.inner.glob ->
                [panic |-> FALSE, push_name |-> None, popped_name |-> None,
                 stack |-> names]
          [] k = "Import" /\ ~item.inner.glob ->
                IF names = <<>>
                THEN [panic |-> TRUE, push_name |-> Some(item.inner.name),
                      popped_name |-> None, stack |-> names]
                ELSE [panic |-> FALSE, push_name |-> Some(item.inner.name),
                      popped_name |-> Some(Last(names)), stack |-> ButLast(names)]
          [] k = "Typedef" ->
                IF item.name = None
                THEN [panic |-> TRUE, push_name |-> None, popped_name |-> None,
                      stack |-> names]
                ELSE [panic |-> FALSE, push_name |-> item.name,
                      popped_name |-> None, stack |-> names]
          [] OTHER ->
                [panic |-> FALSE, push_name |-> item.name, popped_name |-> None,
                 stack |-> names]

\* the match giving (push_name, popped_name), with the stack after the pop;
\* panic is a failed expect ("no name to pop", "typedef had no name")
NamesOnEntry(item, names) ==
    LET k == item.inner.kind
    IN  CASE k = "Import" /\ item.inner.glob ->
                [panic |-> FALSE, push_name |-> None, popped_name |-> None,
                 stack |-> names]
          [] k = "Import" /\ ~item.inner.glob ->
                IF names = <<>>
                THEN [panic |-> TRUE, push_name |-> Some(item.inner.name),
                      popped_name |-> None, stack |-> names]
                ELSE [panic |-> FALSE, push_name |-> Some(item.inner.name),
                      popped_name |-> Some(Last(names)), stack |-> ButLast(names)]
          [] k = "Typedef" ->
                IF item.name = None
                THEN [panic |-> TRUE, push_name |-> None, popped_name |-> None,
                      stack |-> names]
                ELSE [panic |-> FALSE, push_name |-> item.name,
                      popped_name |-> IF names = <<>> THEN None ELSE Some(Last(names)),
                      stack |-> IF names = <<>> THEN names ELSE ButLast(names)]
          [] OTHER ->
                [panic |-> FALSE, push_name |-> item.name, popped_name |-> None,
                 stack |-> names]

\* the cycle guard: TRUE where already_visited_ids.insert(next_id) is false
CollectCycle(visited, next_id) == next_id \in visited

\* mutant of CollectInner: an item without forest parents is taken for a top-level
\* item and its stack is emitted as a path
CollectInnerEmitsParentless(crate_, forest, next_id, names) ==
    IF next_id = crate_.root \/ next_id \notin DOMAIN forest
    THEN [emit |-> Some(Reverse(names)), todo |-> <<>>]
    ELSE [emit |-> None, todo |-> forest[next_id]]

\* mutant of CollectInner: the stack is emitted as it is, the item first
CollectInnerEmitsStack(crate_, forest, next_id, names) ==
    IF next_id = crate_.root
    THEN [emit |-> Some(names), todo |-> <<>>]
    ELSE IF next_id \in DOMAIN forest
    THEN [emit |-> None, todo |-> forest[next_id]]
    ELSE [emit |-> None, todo |-> <<>>]

\* collect_publicly_importable_names_inner, up to its first recursive call:
\* the path it pushes on the output, and the parents it will recurse into
CollectInner(crate_, forest, next_id, names) ==
    IF next_id = crate_.root
    THEN [emit |-> Some(Reverse(names)), todo |-> <<>>]
    ELSE IF next_id \in DOMAIN forest
    THEN [emit |-> None, todo |-> forest[next_id]]
    ELSE [emit |-> None, todo |-> <<>>]

\* mutant of CollectEnter: a path that the output already holds is not pushed
CollectEnterOncePerPath(crate_, forest, st, next_id) ==
    IF CollectCycle(st.visited, next_id) THEN st
    ELSE IF next_id \notin DOMAIN crate_.index
    THEN [st EXCEPT !.visited = @ \cup {next_id}, !.panic = TRUE]
    ELSE
      LET item == crate_.index[next_id]
          n == NamesOnEntry(item, st.stack)
          pushed == n.stack \o n.push_name
          in == CollectInner(crate_, forest, next_id, pushed)
      IN  IF NotAModule(item, st.stack)
          THEN [st EXCEPT !.visited = @ \cup {next_id}]
          ELSE IF n.panic
          THEN [st EXCEPT !.visited = @ \cup {next_id}, !.panic = TRUE]
          ELSE [visited |-> st.visited \cup {next_id},
                stack |-> pushed,
                output |-> IF Range(in.emit) \subseteq Range(st.output)
                           THEN st.output
                           ELSE st.output \o in.emit,
                frames |-> Append(st.frames,
                                  [id |-> next_id, push_name |-> n.push_name,
                                   popped_name |-> n.popped_name, todo |-> in.todo]),
                panic |-> FALSE]

\* One call of collect_publicly_importable_names up to its first recursive call,
\* or to its return when it returns early: st is [visited, stack, output,
\* frames, panic].
CollectEnter(crate_, forest, st, next_id) ==
    IF CollectCycle(st.visited, next_id) THEN st
    ELSE IF next_id \notin DOMAIN crate_.index
    THEN [st EXCEPT !.visited = @ \cup {next_id}, !.panic = TRUE]
    ELSE
      LET item == crate_.index[next_id]
          n == NamesOnEntry(item, st.stack)
          pushed == n.stack \o n.push_name
          in == CollectInner(crate_, forest, next_id, pushed)
      IN  IF NotAModule(item, st.stack)
          THEN [st EXCEPT !.visited = @ \cup {next_id}]
          ELSE IF n.panic
          THEN [st EXCEPT !.visited = @ \cup {next_id}, !.panic = TRUE]
          ELSE [visited |-> st.visited \cup {next_id},
                stack |-> pushed,
                output |-> st.output \o in.emit,
                frames |-> Append(st.frames,
                                  [id |-> next_id, push_name |-> n.push_name,
                                   popped_name |-> n.popped_name, todo |-> in.todo]),
                panic |-> FALSE]

\* mutant of RestoreStack: the name popped on entry is not pushed back
RestoreStackDropsPopped(frame, names) ==
    LET bad == /\ IsSome(frame.push_name)
               /\ \/ names = <<>>
                  \/ Last(names) # Unwrap(frame.push_name)
        unpushed == IF IsSome(frame.push_name) /\ names # <<>>
                    THEN ButLast(names) ELSE names
    IN  [panic |-> bad, stack |-> unpushed]

\* the stack after the function has undone its push and its pop; panic is
\* "there was nothing to pop" or the failed assert_eq on the recovered name
RestoreStack(frame, names) ==
    LET bad == /\ IsSome(frame.push_name)
               /\ \/ names = <<>>
                  \/ Last(names) # Unwrap(frame.push_name)
        unpushed == IF IsSome(frame.push_name) /\ names # <<>>
                    THEN ButLast(names) ELSE names
    IN  [panic |-> bad, stack |-> unpushed \o frame.popped_name]

\* mutant of CollectLeave: the visited set is global, the id stays in it
CollectLeaveKeepsVisited(st) ==
    LET frame == Last(st.frames)
        r == RestoreStack(frame, st.stack)
    IN  [visited |-> st.visited,
         stack |-> r.stack,
         output |-> st.output,
         frames |-> ButLast(st.frames),
         panic |-> r.panic \/ frame.id \notin st.visited]

\* The end of a call of collect_publicly_importable_names that recursed.
CollectLeave(st) ==
    LET frame == Last(st.frames)
        r == RestoreStack(frame, st.stack)
    IN  [visited |-> st.visited \ {frame.id},
         stack |-> r.stack,
         output |-> st.output,
         frames |-> ButLast(st.frames),
         panic |-> r.panic \/ frame.id \notin st.visited]

\* the innermost call recurses into its next parent
CollectRecurse(crate_, forest, st) ==
    LET frame == Last(st.frames)
        rest == [st EXCEPT !.frames = [@ EXCEPT ![Len(@)].todo = Tail(frame.todo)]]
    IN  CollectEnter(crate_, forest, rest, Head(frame.todo))

\* mutant of FreshCollectState: the output vector outlives the call
FreshCollectStateKeepsOutput ==
    [visited |-> {}, stack |-> <<>>, output |-> output, frames |-> <<>>,
     panic |-> FALSE]

\* the locals publicly_importable_names starts from
FreshCollectState ==
    [visited |-> {}, stack |-> <<>>, output |-> <<>>, frames |-> <<>>,
     panic |-> FALSE]

\* publicly_importable_names up to the first recursive call of
\* collect_publicly_importable_names, or to its return when the id is unknown
StartCall(crate_, forest, id) ==
    IF id \in DOMAIN crate_.index
    THEN CollectEnter(crate_, forest, FreshCollectState, id)
    ELSE FreshCollectState

\* the calls of collect_publicly_importable_names run to the end
RECURSIVE RunCollect(_, _, _)
RunCollect(crate_, forest, st) ==
    IF st.panic \/ st.frames = <<>> THEN st
    ELSE IF Last(st.frames).todo # <<>>
    THEN RunCollect(crate_, forest, CollectRecurse(crate_, forest, st))
    ELSE RunCollect(crate_, forest, CollectLeave(st))

\* publicly_importable_names(id): [panic, paths]
PubliclyImportableNames(crate_, forest, id) ==
    LET st == RunCollect(crate_, forest, StartCall(crate_, forest, id))
    IN  [panic |-> st.panic, paths |-> st.output]

---------------------------------------------------------------------------
(* IndexedCrate::new: the indices *)

\* the filter of the import index with rustdoc_types::ItemEnum::Union(..) added
IsIndexedKindWithUnion(item) ==
    item.inner.kind \in
        {"Struct", "StructField", "Enum", "Variant", "Function", "Impl", "Trait",
         "Union"}

\* the items IndexedCrate::new computes importable paths for
IsIndexedKind(item) ==
    item.inner.kind \in
        {"Struct", "StructField", "Enum", "Variant", "Function", "Impl", "Trait"}

\* mutant of PushAll: map.insert(key, vec![value]), the last value of a key
\* replacing the earlier ones
RECURSIVE PushAllKeepsLast(_, _)
PushAllKeepsLast(map, entries) ==
    IF entries = <<>> THEN map
    ELSE LET e == Head(entries)
             with == OrDefault(map, e.key, EmptyBag)
         IN  PushAllKeepsLast([with EXCEPT ![e.key] = SetToBag({e.value})],
                              Tail(entries))

\* map.entry(key).or_default().push(value) for each [key, value] of entries, the
\* vector under a key being kept as the bag of its elements
RECURSIVE PushAll(_, _)
PushAll(map, entries) ==
    IF entries = <<>> THEN map
    ELSE LET e == Head(entries)
             with == OrDefault(map, e.key, EmptyBag)
         IN  PushAll([with EXCEPT ![e.key] = @ (+) SetToBag({e.value})],
                     Tail(entries))

\* the loop over publicly_importable_names(&item.id) for one item
ImportEntries(id, paths) ==
    [i \in 1..Len(paths) |-> [key |-> paths[i], value |-> id]]

\* the struct, enum and union items, whose impls the impl index is built from
IsImplOwner(item) == item.inner.kind \in {"Struct", "Enum", "Union"}

\* mutant of ProvidedEntries: every named item of the trait, overridden or not
ProvidedEntriesAllTraitItems(crate_, owner_id, impl_item) ==
    LET t == impl_item.inner.trait_
        has_trait == /\ IsSome(t)
                     /\ Unwrap(t).id \in DOMAIN crate_.index
                     /\ crate_.index[Unwrap(t).id].inner.kind = "Trait"
        Named(id) == IsSome(crate_.index[id].name)
        ids == IF has_trait
               THEN SelectSeq(FilterPresent(crate_,
                                  crate_.index[Unwrap(t).id].inner.items), Named)
               ELSE <<>>
    IN  [i \in 1..Len(ids) |->
            [key |-> <<owner_id, Unwrap(crate_.index[ids[i]].name)>>,
             value |-> <<impl_item.id, ids[i]>>]]

\* the trait's provided items an impl block inherits, as impl index entries
ProvidedEntries(crate_, owner_id, impl_item) ==
    LET t == impl_item.inner.trait_
        has_trait == /\ IsSome(t)
                     /\ Unwrap(t).id \in DOMAIN crate_.index
                     /\ crate_.index[Unwrap(t).id].inner.kind = "Trait"
        Provided(id) ==
            /\ IsSome(crate_.index[id].name)
            /\ Unwrap(crate_.index[id].name) \in impl_item.inner.provided_trait_methods
        ids == IF has_trait
               THEN SelectSeq(FilterPresent(crate_,
                                  crate_.index[Unwrap(t).id].inner.items), Provided)
               ELSE <<>>
    IN  [i \in 1..Len(ids) |->
            [key |-> <<owner_id, Unwrap(crate_.index[ids[i]].name)>>,
             value |-> <<impl_item.id, ids[i]>>]]

\* mutant of ContainedEntries: the members of a public owner's blocks only
ContainedEntriesPublicOwner(crate_, owner_id, impl_item) ==
    LET Named(id) == IsSome(crate_.index[id].name)
        ids == IF crate_.index[owner_id].visibility = "Public"
               THEN SelectSeq(FilterPresent(crate_, impl_item.inner.items), Named)
               ELSE <<>>
    IN  [i \in 1..Len(ids) |->
            [key |-> <<owner_id, Unwrap(crate_.index[ids[i]].name)>>,
             value |-> <<impl_item.id, ids[i]>>]]

\* the items declared in an impl block, as impl index entries
ContainedEntries(crate_, owner_id, impl_item) ==
    LET Named(id) == IsSome(crate_.index[id].name)
        ids == SelectSeq(FilterPresent(crate_, impl_item.inner.items), Named)
    IN  [i \in 1..Len(ids) |->
            [key |-> <<owner_id, Unwrap(crate_.index[ids[i]].name)>>,
             value |-> <<impl_item.id, ids[i]>>]]

\* the impl blocks of an owner that are in the index
OwnerImplIds(crate_, owner_id) ==
    FilterPresent(crate_, crate_.index[owner_id].inner.impls)

\* the impl index loop: [panic, index]; panic is the
\* unreachable!("expected impl but got another item type")
BuildImplIndex(crate_) ==
    LET owners == SortedById({id \in DOMAIN crate_.index :
                                  IsImplOwner(crate_.index[id])})
        OfImpl(owner_id, impl_id) ==
            ProvidedEntries(crate_, owner_id, crate_.index[impl_id])
            \o ContainedEntries(crate_, owner_id, crate_.index[impl_id])
        OfOwner(owner_id) ==
            LET impls == OwnerImplIds(crate_, owner_id)
            IN  Flatten([i \in 1..Len(impls) |-> OfImpl(owner_id, impls[i])])
        bad == \E owner_id \in Range(owners) :
                   \E impl_id \in Range(OwnerImplIds(crate_, owner_id)) :
                       crate_.index[impl_id].inner.kind # "Impl"
    IN  IF bad THEN [panic |-> TRUE, index |-> <<>>]
        ELSE [panic |-> FALSE,
              index |-> PushAll(<<>>, Flatten([i \in 1..Len(owners) |->
                                                  OfOwner(owners[i])]))]

---------------------------------------------------------------------------
(* create_manually_inlined_builtin_traits *)

ManualTraitItem(name, is_auto, is_unsafe) ==
    [name |-> name, is_auto |-> is_auto, is_unsafe |-> is_unsafe]

MANUAL_TRAIT_ITEMS ==
    << ManualTraitItem("Debug", FALSE, FALSE),
       ManualTraitItem("Clone", FALSE, FALSE),
       ManualTraitItem("Copy", FALSE, FALSE),
       ManualTraitItem("PartialOrd", FALSE, FALSE),
       ManualTraitItem("Ord", FALSE, FALSE),
       ManualTraitItem("PartialEq", FALSE, FALSE),
       ManualTraitItem("Eq", FALSE, FALSE),
       ManualTraitItem("Hash", FALSE, FALSE),
       ManualTraitItem("Send", TRUE, TRUE),
       ManualTraitItem("Sync", TRUE, TRUE),
       ManualTraitItem("Unpin", TRUE, FALSE),
       ManualTraitItem("RefUnwindSafe", TRUE, FALSE),
       ManualTraitItem("UnwindSafe", TRUE, FALSE),
       ManualTraitItem("Sized", FALSE, FALSE) >>

\* new_trait that copies the name of the table's row and none of its flags
NewTraitWithoutFlags(manual_trait_item, id, crate_id) ==
    [id |-> id, crate_id |-> crate_id, name |-> Some(manual_trait_item.name),
     visibility |-> "Public",
     inner |-> Trait(<<>>, Generics(<<>>), <<>>, FALSE, FALSE)]

\* new_trait: the placeholder of a row of the table
NewTrait(manual_trait_item, id, crate_id) ==
    [id |-> id, crate_id |-> crate_id, name |-> Some(manual_trait_item.name),
     visibility |-> "Public",
     inner |-> Trait(<<>>, Generics(<<>>), <<>>, manual_trait_item.is_auto,
                     manual_trait_item.is_unsafe)]

\* the trait paths of the impl items of the index
ImplTraitPaths(crate_) ==
    {Unwrap(crate_.index[id].inner.trait_) :
        id \in {i \in DOMAIN crate_.index :
                    /\ crate_.index[i].inner.kind = "Impl"
                    /\ IsSome(crate_.index[i].inner.trait_)}}

\* the (id, trait item) pairs the filter_map yields, in no particular order
ManualTraitPairs(crate_) ==
    {<<path.id, NewTrait(MANUAL_TRAIT_ITEMS[m], path.id, crate_.paths[path.id].crate_id)>> :
        <<path, m>> \in
            {pm \in ImplTraitPaths(crate_) \X (1..Len(MANUAL_TRAIT_ITEMS)) :
                /\ MANUAL_TRAIT_ITEMS[pm[2]].name = pm[1].name
                /\ \A k \in 1..(pm[2] - 1) : MANUAL_TRAIT_ITEMS[k].name # pm[1].name
                /\ pm[1].id \in DOMAIN crate_.paths}}

\* the maps collect() can build from the pairs: under an id that several pairs
\* carry, the pair the iteration of the index meets last stays
CreateManuallyInlinedBuiltinTraits(crate_) ==
    LET pairs == ManualTraitPairs(crate_)
        ids == {p[1] : p \in pairs}
    IN  {f \in [ids -> {p[2] : p \in pairs}] : \A id \in ids : <<id, f[id]>> \in pairs}

---------------------------------------------------------------------------
(* The snapshots the program is run on *)

\* publicly_importable_names calls made on one IndexedCrate
MaxCalls == 2

\* the largest id a snapshot or a caller uses
MaxId == 11

Ids == 0..MaxId

NoGenerics == Generics(<<>>)

Use(name, id, glob, vis) == [name |-> name, id |-> id, glob |-> glob, vis |-> vis]

\* crate (the root module), inner, a `use` in the root, an enum, a function in
\* inner, a `use` in inner, the enum's variant; id 9 is in no index
ReexportCrate(root_vis, inner_vis, foo_vis, a, b) ==
    Crate(0,
          (0 :> Item(0, Some("crate"), root_vis, Module(<<1, 2, 3>>)))
       @@ (1 :> Item(1, Some("inner"), inner_vis, Module(<<4, 5>>)))
       @@ (2 :> Item(2, None, a.vis, Import(a.name, a.id, a.glob)))
       @@ (3 :> Item(3, Some("Baz"), "Public", Enum(<<6>>, <<>>, NoGenerics)))
       @@ (4 :> Item(4, Some("foo"), foo_vis, Leaf("Function")))
       @@ (5 :> Item(5, None, b.vis, Import(b.name, b.id, b.glob)))
       @@ (6 :> Item(6, Some("First"), "Default", Leaf("Variant"))),
          <<>>)

RootUses ==
    {Use(n, Some(t), FALSE, "Public") : n \in {"foo", "bar"}, t \in {1, 3, 4, 5}}
    \cup {Use("glob_in_root", Some(t), TRUE, "Public") : t \in {1, 3}}

InnerUses ==
    {Use(n, Some(t), FALSE, v) :
        n \in {"foo", "bar"}, t \in {0, 1, 2, 4}, v \in {"Public", "Restricted"}}
    \cup {Use("glob_in_inner", Some(t), TRUE, "Public") : t \in {0, 3}}

ReexportSnapshots ==
    {ReexportCrate("Public", vs[1], vs[2], a, b) :
        vs \in {<<"Public", "Public">>, <<"Crate", "Public">>,
                <<"Restricted", "Public">>, <<"Public", "Crate">>},
        a \in RootUses, b \in InnerUses}

\* a struct, union or enum Foo with a field or variant, an impl block with a
\* method and a constant, a trait with a provided method, a top-level function
\* and one more item of the root (an alias or an import of Foo, or a function
\* with the name of Foo); id 10 is in no index, id 11 is a trait of another crate
TypeCrate(foo, foo_vis, member_vis, impl_vis, trait_, extra) ==
    Crate(0,
          (0 :> Item(0, Some("crate"), "Public", Module(<<1, 5, 8, 9>>)))
       @@ (1 :> Item(1, Some("Foo"), foo_vis, foo))
       @@ (2 :> Item(2, Some(IF foo.kind = "Enum" THEN "Variant" ELSE "field"),
                     member_vis,
                     Leaf(IF foo.kind = "Enum" THEN "Variant" ELSE "StructField")))
       @@ (3 :> Item(3, None, impl_vis, Impl(<<4, 7>>, trait_, {"provided"})))
       @@ (4 :> Item(4, Some("method"), "Public", Leaf("Function")))
       @@ (5 :> Item(5, Some("Tr"), "Public", Trait(<<6>>, NoGenerics, <<>>, FALSE, FALSE)))
       @@ (6 :> Item(6, Some("provided"), "Default", Leaf("Function")))
       @@ (7 :> Item(7, Some("THE_ANSWER"), "Public", Leaf("AssocConst")))
       @@ (8 :> Item(8, Some("top_level_function"), "Public", Leaf("Function")))
       @@ (9 :> Item(9, extra.name, "Public", extra.inner)),
          (11 :> [crate_id |-> 2]))

TypeSnapshots ==
    {TypeCrate(foo, vs[1], vs[2], impl_vis, trait_, extra) :
        foo \in {Struct("Plain", <<2>>, <<3>>, NoGenerics),
                 Struct("Tuple", <<None, Some(2)>>, <<3>>, NoGenerics),
                 Union(<<2>>, <<3>>, NoGenerics),
                 Enum(<<2>>, <<3>>, NoGenerics)},
        vs \in {<<"Public", "Public">>, <<"Public", "Default">>,
                <<"Public", "Restricted">>, <<"Crate", "Public">>},
        impl_vis \in {"Default", "Crate", "Restricted"},
        trait_ \in {None, Some([name |-> "Tr", id |-> 5]),
                    Some([name |-> "Clone", id |-> 11])},
        extra \in {[name |-> Some("Alias"),
                    inner |-> Typedef(ResolvedPath(1, None), NoGenerics)],
                   [name |-> None, inner |-> Import("Renamed", Some(1), FALSE)],
                   [name |-> None, inner |-> Import("glob_of_foo", Some(1), TRUE)],
                   [name |-> Some("Foo"), inner |-> Leaf("Function")]}}

\* a module inner with an item Bar (one of the structs has a type parameter with
\* a default), an alias Foo in the root and an alias Exported of the alias; id 9
\* is in no index
AliasCrate(inner_vis, bar, foo_vis, foo_type, exported_type) ==
    Crate(0,
          (0 :> Item(0, Some("crate"), "Public", Module(<<1, 3, 4>>)))
       @@ (1 :> Item(1, Some("inner"), inner_vis, Module(<<2>>)))
       @@ (2 :> Item(2, Some("Bar"), "Public", bar))
       @@ (3 :> Item(3, Some("Foo"), foo_vis, Typedef(foo_type, NoGenerics)))
       @@ (4 :> Item(4, Some("Exported"), "Public",
                     Typedef(exported_type, NoGenerics))),
          <<>>)

NoArgs == Some(AngleBracketed(<<>>, <<>>))

AliasSnapshots ==
    {AliasCrate(inner_vis, bar, foo_vis, foo_type, exported_type) :
        inner_vis \in {"Public", "Restricted"},
        bar \in {Struct("Unit", <<>>, <<>>, NoGenerics),
                 Struct("Unit", <<>>, <<>>,
                        Generics(<<GenericParamDef("T", "Type", None, Some("u8"))>>)),
                 Enum(<<>>, <<>>, NoGenerics),
                 Union(<<>>, <<>>, NoGenerics),
                 Trait(<<>>, NoGenerics, <<>>, FALSE, FALSE),
                 Leaf("Function"),
                 Leaf("ForeignType")},
        foo_vis \in {"Public", "Crate"},
        foo_type \in {ResolvedPath(2, None),
                      ResolvedPath(2, NoArgs),
                      ResolvedPath(2, Some(AngleBracketed(<<>>, <<"Output">>))),
                      ResolvedPath(9, None),
                      ResolvedPath(4, None),
                      OtherType("Tuple", "")},
        exported_type \in {ResolvedPath(3, None), ResolvedPath(3, NoArgs)}}

\* generic parameters: a lifetime, a type with an optional default, a const with
\* a type and an optional default
Lt(name) == GenericParamDef(name, "Lifetime", None, None)

Ty(name, default) == GenericParamDef(name, "Type", None, default)

Cn(name, type_, default) == GenericParamDef(name, "Const", Some(type_), default)

\* the generic argument that names the parameter p
ArgOf(p) ==
    CASE p.kind.tag = "Lifetime" -> GenericArg("Lifetime", p.name)
      [] p.kind.tag = "Type" -> GenericArg("Type", OtherType("Generic", p.name))
      [] p.kind.tag = "Const" -> GenericArg("Const", p.name)

\* an argument of the kind of p that is not a parameter: 'static, u8, N + 1
ConcreteArgOf(p) ==
    CASE p.kind.tag = "Lifetime" -> GenericArg("Lifetime", "'static")
      [] p.kind.tag = "Type" -> GenericArg("Type", OtherType("Primitive", "u8"))
      [] p.kind.tag = "Const" -> GenericArg("Const", p.name \o " + 1")

IdentityArgs(params) == [i \in 1..Len(params) |-> ArgOf(params[i])]

\* the parameter p under the i-th name a target declares for the kind of p
Renamed(p, i) ==
    [p EXCEPT !.name = IF p.kind.tag = "Lifetime" THEN <<"'x", "'y">>[i]
                       ELSE <<"X", "Y">>[i]]

\* the parameter lists of the aliases
AliasSigs ==
    {<<>>,
     <<Lt("'a"), Lt("'b")>>,
     <<Ty("A", None), Ty("B", None)>>,
     <<Cn("N", "usize", None), Cn("M", "usize", None)>>,
     <<Lt("'a"), Ty("A", None)>>,
     <<Ty("A", Some("1"))>>,
     <<Cn("N", "usize", Some("1"))>>,
     <<Ty("A", None), Cn("N", "usize", None)>>}

\* the parameter lists of the targets an alias with parameters tp is tried on:
\* the same list, the list under other names, in reverse, shorter, longer, and
\* with one parameter of another kind, another default or another const type
TargetSigsFor(tp) ==
    {tp, [i \in 1..Len(tp) |-> Renamed(tp[i], i)], Reverse(tp),
     Append(tp, Ty("Z", Some("1")))}
    \cup (IF tp = <<>> THEN {} ELSE {ButLast(tp)})
    \cup {[tp EXCEPT ![i] = q] :
            i \in 1..Len(tp), q \in {Lt("'a"), Ty("A", None), Cn("N", "usize", None)}}
    \cup {[tp EXCEPT ![i].kind.default = d] :
            i \in {i \in 1..Len(tp) : tp[i].kind.tag # "Lifetime"},
            d \in {None, Some("1"), Some("2")}}
    \cup {[tp EXCEPT ![i].kind.type_ = Some("u8")] :
            i \in {i \in 1..Len(tp) : tp[i].kind.tag = "Const"}}

\* the generic arguments an alias with parameters tp passes to its target: its
\* parameters in order, in reverse, without the last, with one more, with the
\* first one replaced (by a concrete argument, an inferred one, a tuple type or
\* the second parameter); an alias without parameters may pass none at all
ArgsFor(tp) ==
    LET id == IdentityArgs(tp)
    IN  {Some(AngleBracketed(args, <<>>)) :
            args \in {id, Reverse(id),
                      Append(id, GenericArg("Type", OtherType("Primitive", "u8")))}
                     \cup (IF tp = <<>> THEN {}
                           ELSE {ButLast(id),
                                 [id EXCEPT ![1] = ConcreteArgOf(tp[1])],
                                 [id EXCEPT ![1] = GenericArg("Infer", "_")],
                                 [id EXCEPT ![1] = GenericArg("Type", OtherType("Tuple", ""))],
                                 [id EXCEPT ![1] = id[Len(id)]]})}
        \cup (IF tp = <<>> THEN {None} ELSE {})

\* a module inner with a struct Bar, an alias Foo of it in the root and an alias
\* Exported of the alias
GenericAliasCrate(bar_generics, foo, exported) ==
    Crate(0,
          (0 :> Item(0, Some("crate"), "Public", Module(<<1, 3, 4>>)))
       @@ (1 :> Item(1, Some("inner"), "Public", Module(<<2>>)))
       @@ (2 :> Item(2, Some("Bar"), "Public", Struct("Unit", <<>>, <<>>, bar_generics)))
       @@ (3 :> Item(3, Some("Foo"), "Public", foo))
       @@ (4 :> Item(4, Some("Exported"), "Public", exported)),
          <<>>)

\* generic aliases of generic structs
GenericAliasSnapshots ==
    UNION {{GenericAliasCrate(Generics(up),
                              Typedef(ResolvedPath(2, args), Generics(tp)),
                              Typedef(ResolvedPath(3, NoArgs), NoGenerics)) :
              up \in TargetSigsFor(tp), args \in ArgsFor(tp)} : tp \in AliasSigs}

\* the parameter lists of the aliases that are aliased again
ChainSigs ==
    {<<>>,
     <<Lt("'a"), Ty("A", None)>>,
     <<Ty("A", Some("1"))>>,
     <<Cn("N", "usize", None), Cn("M", "usize", None)>>}

\* the parameter lists of an alias of an alias with parameters tp: the same
\* list, the list under other names, and with another default
ChainSigsFor(tp) ==
    {tp, [i \in 1..Len(tp) |-> Renamed(tp[i], i)]}
    \cup {[tp EXCEPT ![i].kind.default = d] :
            i \in {i \in 1..Len(tp) : tp[i].kind.tag # "Lifetime"},
            d \in {None, Some("2")}}

\* aliases of aliases: Foo passes its parameters to Bar in order or in reverse,
\* Exported is an alias of Foo
ChainSnapshots ==
    UNION {UNION {{GenericAliasCrate(Generics(tp),
                                     Typedef(ResolvedPath(2, foo_args), Generics(tp)),
                                     Typedef(ResolvedPath(3, args), Generics(ep))) :
                     foo_args \in {Some(AngleBracketed(IdentityArgs(tp), <<>>)),
                                   Some(AngleBracketed(Reverse(IdentityArgs(tp)), <<>>))},
                     args \in ArgsFor(ep)} :
                  ep \in ChainSigsFor(tp)} : tp \in ChainSigs}

\* an owner Foo with one impl block of the trait Tr, which declares the default
\* methods provided and method; block is [items, trait_, provided]: the members
\* written in the block, the trait and the defaults the block does not override.
\* Id 3 is the block's own method, id 7 its own provided; id 10 is in no index,
\* id 11 is a trait of another crate
TraitCrate(foo, foo_vis, block) ==
    Crate(0,
          (0 :> Item(0, Some("crate"), "Public", Module(<<1, 4>>)))
       @@ (1 :> Item(1, Some("Foo"), foo_vis, foo))
       @@ (2 :> Item(2, None, "Default",
                     Impl(block.items, block.trait_, block.provided)))
       @@ (IF 3 \in Range(block.items)
           THEN (3 :> Item(3, Some("method"), "Default", Leaf("Function")))
           ELSE <<>>)
       @@ (4 :> Item(4, Some("Tr"), "Public", Trait(<<5, 6>>, NoGenerics, <<>>, FALSE, FALSE)))
       @@ (5 :> Item(5, Some("provided"), "Default", Leaf("Function")))
       @@ (6 :> Item(6, Some("method"), "Default", Leaf("Function")))
       @@ (IF 7 \in Range(block.items)
           THEN (7 :> Item(7, Some("provided"), "Default", Leaf("Function")))
           ELSE <<>>),
          (11 :> [crate_id |-> 2]))

TraitBlocks ==
    LET Tr == Some([name |-> "Tr", id |-> 4])
    IN  {[items |-> <<3>>, trait_ |-> Tr, provided |-> {"provided"}],
         [items |-> <<3, 7>>, trait_ |-> Tr, provided |-> {}],
         [items |-> <<>>, trait_ |-> Tr, provided |-> {"provided", "method"}],
         [items |-> <<10, 3>>, trait_ |-> Tr, provided |-> {"provided"}],
         [items |-> <<3>>, trait_ |-> None, provided |-> {}],
         [items |-> <<3>>, trait_ |-> Some([name |-> "Clone", id |-> 11]),
          provided |-> {"clone_from"}]}

TraitSnapshots ==
    {TraitCrate(foo, foo_vis, block) :
        foo \in UNION {{Struct("Unit", <<>>, impls, NoGenerics),
                        Union(<<>>, impls, NoGenerics),
                        Enum(<<>>, impls, NoGenerics)} :
                           impls \in {<<2>>, <<10, 2>>}},
        foo_vis \in {"Public", "Crate"},
        block \in TraitBlocks}

\* mod t { pub mod q { pub use crate::m::*; } pub fn x() {} } and
\* pub mod m { pub use crate::t::*; }: the glob import of t in m is met again,
\* through the glob import in q, while it is being visited
GlobCycleCrate(t_vis, q_target) ==
    Crate(0,
          (0 :> Item(0, Some("crate"), "Public", Module(<<1, 2>>)))
       @@ (1 :> Item(1, Some("t"), t_vis, Module(<<3, 4>>)))
       @@ (2 :> Item(2, Some("m"), "Public", Module(<<5>>)))
       @@ (3 :> Item(3, Some("q"), "Public", Module(<<6>>)))
       @@ (4 :> Item(4, Some("x"), "Public", Leaf("Function")))
       @@ (5 :> Item(5, None, "Public", Import("glob_of_t", Some(1), TRUE)))
       @@ (6 :> Item(6, None, "Public", Import("glob_in_q", Some(q_target), TRUE))),
          <<>>)

GlobCycleSnapshots ==
    {GlobCycleCrate(t_vis, q_target) : t_vis \in {"Crate", "Public"}, q_target \in {2, 0}}

\* Path {name, id} of a trait reference
Path(name, id) == [name |-> name, id |-> id]

\* ItemSummary {crate_id} of the external-summary map
ItemSummary(crate_id) == [crate_id |-> crate_id]

\* pub struct S with the impl blocks 2 and 3 of the traits a and b, and the
\* trait 4 of this crate, named local_name; ids 10 and 11 are traits of other
\* crates, which the index lacks. summaries is Crate.paths
BuiltinCrate(local_name, a, b, summaries) ==
    Crate(0,
          (0 :> Item(0, Some("crate"), "Public", Module(<<1, 4>>)))
       @@ (1 :> Item(1, Some("S"), "Public", Struct("Unit", <<>>, <<2, 3>>, NoGenerics)))
       @@ (2 :> Item(2, None, "Default", Impl(<<>>, a, {})))
       @@ (3 :> Item(3, None, "Default", Impl(<<>>, b, {})))
       @@ (4 :> Item(4, Some(local_name), "Public",
                     Trait(<<5>>, NoGenerics, <<"Sized">>, FALSE, FALSE)))
       @@ (5 :> Item(5, Some("clone"), "Default", Leaf("Function"))),
          summaries)

\* the trait references of the two blocks: two traits of the table, a trait of
\* this crate under a name of the table or under its own, a trait the table
\* lacks, one trait that two blocks name differently (`use Debug as Clone`), and
\* an inherent block
BuiltinImplPairs ==
    {<<Some(Path("Clone", 11)), Some(Path("Send", 10))>>,
     <<Some(Path("Clone", 4)), Some(Path("Unpin", 11))>>,
     <<Some(Path("Tr", 4)), None>>,
     <<Some(Path("Display", 11)), Some(Path("Sync", 10))>>,
     <<Some(Path("Clone", 11)), Some(Path("Debug", 11))>>}

\* the summaries rustdoc writes (the items of this crate under crate id 0, the
\* traits of other crates under theirs), and maps that lack some of them
BuiltinSummaries ==
    {(1 :> ItemSummary(0)) @@ (4 :> ItemSummary(0)) @@ (10 :> ItemSummary(1))
        @@ (11 :> ItemSummary(2)),
     (11 :> ItemSummary(2)),
     <<>>}

BuiltinSnapshots ==
    {BuiltinCrate(local_name, ab[1], ab[2], summaries) :
        local_name \in {"Clone", "Tr"},
        ab \in BuiltinImplPairs,
        summaries \in BuiltinSummaries}

\* snapshots that refer to ids the index lacks, whose root is not public, or
\* that list an item of another kind where an impl block is expected
BrokenSnapshots ==
    LET a == Use("bar", Some(4), FALSE, "Public")
        b == Use("glob_in_inner", Some(0), TRUE, "Public")
        base == ReexportCrate("Public", "Public", "Public", a, b)
    IN  {ReexportCrate(v, "Public", "Public", a, b) :
            v \in {"Crate", "Restricted", "Default"}}
        \cup {[base EXCEPT !.root = 9]}
        \cup {[base EXCEPT !.index[0].inner.items = <<9, 1, 2, 9, 3>>]}
        \cup {ReexportCrate("Public", "Public", "Public", u, b) :
                u \in {Use("foo", None, FALSE, "Public"),
                       Use("foo", Some(9), FALSE, "Public"),
                       Use("glob_in_root", Some(9), TRUE, "Public"),
                       Use("glob_in_root", Some(4), TRUE, "Public"),
                       Use("foo", Some(4), FALSE, "Crate")}}
        \cup {TraitCrate(Struct("Unit", <<>>, <<2, 3>>, NoGenerics), "Public",
                         [items |-> <<3>>, trait_ |-> None, provided |-> {}])}

Snapshots ==
    ReexportSnapshots \cup TypeSnapshots \cup AliasSnapshots \cup BrokenSnapshots
    \cup GenericAliasSnapshots \cup ChainSnapshots \cup TraitSnapshots
    \cup GlobCycleSnapshots \cup BuiltinSnapshots

---------------------------------------------------------------------------
(* The program *)

\* the snapshots whose re-exports may form cycles: every pair of a `use` in the
\* root and a `use` in inner, and the aliases of aliases
CyclicSnapshots ==
    {ReexportCrate("Public", "Public", "Public", a, b) :
        a \in RootUses, b \in {u \in InnerUses : u.vis = "Public"}}
    \cup {AliasCrate("Public", Struct("Unit", <<>>, <<>>, NoGenerics), "Public",
                     foo_type, ResolvedPath(3, None)) :
            foo_type \in {ResolvedPath(2, None), ResolvedPath(4, None)}}

NoCall == [id |-> None, paths |-> <<>>]

InitOn(snapshots) ==
    /\ inner \in snapshots
    /\ pc = "new"
    /\ parents = <<>>
    /\ currently_visited_items = {}
    /\ visit_frames = <<>>
    /\ visibility_forest = <<>>
    /\ manually_inlined_builtin_traits = <<>>
    /\ imports_index = <<>>
    /\ impl_index = <<>>
    /\ pending_items = <<>>
    /\ call_id = None
    /\ already_visited_ids = {}
    /\ stack = <<>>
    /\ output = <<>>
    /\ collect_frames = <<>>
    /\ last_call = NoCall
    /\ calls_made = 0

Init == InitOn(Snapshots)

VisitState ==
    [parents |-> parents, visited |-> currently_visited_items,
     frames |-> visit_frames, panic |-> FALSE]

SetVisitState(st) ==
    /\ parents' = st.parents
    /\ currently_visited_items' = st.visited
    /\ visit_frames' = st.frames
    /\ pc' = IF st.panic THEN "panicked" ELSE "forest"

CollectState ==
    [visited |-> already_visited_ids, stack |-> stack, output |-> output,
     frames |-> collect_frames, panic |-> FALSE]

SetCollectState(st) ==
    /\ already_visited_ids' = st.visited
    /\ stack' = st.stack
    /\ output' = st.output
    /\ collect_frames' = st.frames
    /\ pc' = IF st.panic THEN "panicked" ELSE pc

\* IndexedCrate::new begins: compute_parent_ids_for_public_items calls
\* visit_root_reachable_public_items on a public root
New ==
    /\ pc = "new"
    /\ SetVisitState(
         IF /\ inner.root \in DOMAIN inner.index
            /\ inner.index[inner.root].visibility = "Public"
         THEN VisitEnter(inner, VisitState, inner.root, None)
         ELSE VisitState)
    /\ UNCHANGED <<inner, visibility_forest, manually_inlined_builtin_traits,
                   imports_index, impl_index, pending_items, call_id,
                   already_visited_ids, stack, output, collect_frames, last_call,
                   calls_made>>

\* the innermost visit_root_reachable_public_items calls itself on its next item
VisitNext ==
    /\ pc = "forest"
    /\ visit_frames # <<>>
    /\ Last(visit_frames).todo # <<>>
    /\ LET frame == Last(visit_frames)
           rest == [VisitState EXCEPT
                       !.frames = [@ EXCEPT ![Len(@)].todo = Tail(frame.todo)]]
       IN  SetVisitState(VisitEnter(inner, rest, Head(frame.todo), frame.parent_id))
    /\ UNCHANGED <<inner, visibility_forest, manually_inlined_builtin_traits,
                   imports_index, impl_index, pending_items, call_id,
                   already_visited_ids, stack, output, collect_frames, last_call,
                   calls_made>>

\* the innermost visit_root_reachable_public_items leaves its item and returns
VisitReturn ==
    /\ pc = "forest"
    /\ visit_frames # <<>>
    /\ Last(visit_frames).todo = <<>>
    /\ SetVisitState([VisitState EXCEPT
                         !.visited = @ \ {Last(visit_frames).id},
                         !.frames = ButLast(@),
                         !.panic = Last(visit_frames).id \notin currently_visited_items])
    /\ UNCHANGED <<inner, visibility_forest, manually_inlined_builtin_traits,
                   imports_index, impl_index, pending_items, call_id,
                   already_visited_ids, stack, output, collect_frames, last_call,
                   calls_made>>

\* IndexedCrate::new sorts the parents into the forest and builds the builtin traits
ForestDone ==
    /\ pc = "forest"
    /\ visit_frames = <<>>
    /\ visibility_forest' = [id \in DOMAIN parents |-> SortedById(parents[id])]
    /\ manually_inlined_builtin_traits' \in CreateManuallyInlinedBuiltinTraits(inner)
    /\ pending_items' = SortedById({id \in DOMAIN inner.index :
                                       IsIndexedKind(inner.index[id])})
    /\ pc' = "imports"
    /\ UNCHANGED <<inner, parents, currently_visited_items, visit_frames,
                   imports_index, impl_index, call_id, already_visited_ids, stack,
                   output, collect_frames, last_call, calls_made>>

\* IndexedCrate::new calls publicly_importable_names on the next item to index
IndexItem ==
    /\ pc = "imports"
    /\ call_id = None
    /\ pending_items # <<>>
    /\ call_id' = Some(Head(pending_items))
    /\ SetCollectState(StartCall(inner, visibility_forest, Head(pending_items)))
    /\ UNCHANGED <<inner, parents, currently_visited_items, visit_frames,
                   visibility_forest, manually_inlined_builtin_traits,
                   imports_index, impl_index, pending_items, last_call, calls_made>>

\* the call has returned: IndexedCrate::new files the item under each path
IndexPaths ==
    /\ pc = "imports"
    /\ call_id # None
    /\ collect_frames = <<>>
    /\ imports_index' = PushAll(imports_index, ImportEntries(Unwrap(call_id), output))
    /\ pending_items' = Tail(pending_items)
    /\ call_id' = None
    /\ UNCHANGED <<inner, pc, parents, currently_visited_items, visit_frames,
                   visibility_forest, manually_inlined_builtin_traits, impl_index,
                   already_visited_ids, stack, output, collect_frames, last_call,
                   calls_made>>

\* IndexedCrate::new builds the impl index and returns
IndexImpls ==
    /\ pc = "imports"
    /\ call_id = None
    /\ pending_items = <<>>
    /\ LET r == BuildImplIndex(inner)
       IN  /\ impl_index' = r.index
           /\ pc' = IF r.panic THEN "panicked" ELSE "ready"
    /\ UNCHANGED <<inner, parents, currently_visited_items, visit_frames,
                   visibility_forest, manually_inlined_builtin_traits,
                   imports_index, pending_items, call_id, already_visited_ids,
                   stack, output, collect_frames, last_call, calls_made>>

\* a caller calls publicly_importable_names(id)
Call(id) ==
    /\ pc = "ready"
    /\ calls_made < MaxCalls
    /\ call_id' = Some(id)
    /\ LET st == StartCall(inner, visibility_forest, id)
       IN  /\ already_visited_ids' = st.visited
           /\ stack' = st.stack
           /\ output' = st.output
           /\ collect_frames' = st.frames
           /\ pc' = IF st.panic THEN "panicked" ELSE "call"
    /\ UNCHANGED <<inner, parents, currently_visited_items, visit_frames,
                   visibility_forest, manually_inlined_builtin_traits,
                   imports_index, impl_index, pending_items, last_call, calls_made>>

\* publicly_importable_names returns its result to the caller
Return ==
    /\ pc = "call"
    /\ collect_frames = <<>>
    /\ last_call' = [id |-> call_id, paths |-> output]
    /\ calls_made' = calls_made + 1
    /\ call_id' = None
    /\ pc' = "ready"
    /\ UNCHANGED <<inner, parents, currently_visited_items, visit_frames,
                   visibility_forest, manually_inlined_builtin_traits,
                   imports_index, impl_index, pending_items, already_visited_ids,
                   stack, output, collect_frames>>

\* the innermost collect_publicly_importable_names calls itself on the next parent
CollectNext ==
    /\ pc \in {"imports", "call"}
    /\ collect_frames # <<>>
    /\ Last(collect_frames).todo # <<>>
    /\ SetCollectState(CollectRecurse(inner, visibility_forest, CollectState))
    /\ UNCHANGED <<inner, parents, currently_visited_items, visit_frames,
                   visibility_forest, manually_inlined_builtin_traits,
                   imports_index, impl_index, pending_items, call_id, last_call,
                   calls_made>>

\* the innermost collect_publicly_importable_names restores the stack and returns
CollectReturn ==
    /\ pc \in {"imports", "call"}
    /\ collect_frames # <<>>
    /\ Last(collect_frames).todo = <<>>
    /\ SetCollectState(CollectLeave(CollectState))
    /\ UNCHANGED <<inner, parents, currently_visited_items, visit_frames,
                   visibility_forest, manually_inlined_builtin_traits,
                   imports_index, impl_index, pending_items, call_id, last_call,
                   calls_made>>

Next ==
    \/ New
    \/ VisitNext
    \/ VisitReturn
    \/ ForestDone
    \/ IndexItem
    \/ IndexPaths
    \/ IndexImpls
    \/ \E id \in Ids : Call(id)
    \/ Return
    \/ CollectNext
    \/ CollectReturn

Spec == Init /\ [][Next]_vars

\* the steps of the program itself: every one but a caller's decision to call
Step ==
    \/ New
    \/ VisitNext
    \/ VisitReturn
    \/ ForestDone
    \/ IndexItem
    \/ IndexPaths
    \/ IndexImpls
    \/ Return
    \/ CollectNext
    \/ CollectReturn

\* the program is sequential code that keeps running: a step that can be taken
\* is taken
FairSpec == InitOn(CyclicSnapshots) /\ [][Next]_vars /\ WF_vars(Step)

---------------------------------------------------------------------------
(* What the claims speak about *)

\* IndexedCrate::new has returned
Constructed == pc \in {"ready", "call"}

\* a call of publicly_importable_names is about to return output
CallDone == pc \in {"imports", "call"} /\ call_id # None /\ collect_frames = <<>>

Names(id) == PubliclyImportableNames(inner, visibility_forest, id)

KindOf(id) == inner.index[id].inner.kind

\* the chains of forest parents from id up to the root that visit no item twice
\* and none of seen
RECURSIVE ChainsFrom(_, _)
ChainsFrom(id, seen) ==
    IF id = inner.root THEN {<<id>>}
    ELSE IF id \notin DOMAIN visibility_forest THEN {}
    ELSE UNION {{<<id>> \o c : c \in ChainsFrom(p, seen \cup {id})} :
                  p \in Range(visibility_forest[id]) \ (seen \cup {id})}

\* the names on the stack after the first k items of a chain: an import or an
\* alias replaces the name below it by its own, a glob import adds nothing, any
\* other item adds its name
RECURSIVE ChainStack(_, _)
ChainStack(c, k) ==
    IF k = 0 THEN <<>>
    ELSE LET below == ChainStack(c, k - 1)
             item == inner.index[c[k]]
             renamed == IF below = <<>> THEN below ELSE ButLast(below)
         IN  CASE item.inner.kind = "Import" /\ item.inner.glob -> below
               [] item.inner.kind = "Import" /\ ~item.inner.glob ->
                     Append(renamed, item.inner.name)
               [] item.inner.kind = "Typedef" -> renamed \o item.name
               [] OTHER -> below \o item.name

\* the chain never enters a struct, union or impl with a name on the stack
ChainEnterable(c) ==
    \A k \in 1..Len(c) :
        ~(ChainStack(c, k - 1) # <<>> /\ KindOf(c[k]) \in {"Struct", "Union", "Impl"})

\* the paths of the chains of id that avoid the items of seen
ChainPaths(id, seen) ==
    {Reverse(ChainStack(c, Len(c))) :
        c \in {c \in ChainsFrom(id, seen) : ChainEnterable(c)}}

---------------------------------------------------------------------------
(* C1 *)

\* C1: publicly_importable_names(id) returns a non-empty list only if id has an
\* entry in the visibility forest or is the crate root; an id that is missing
\* from the crate index, or that has no forest entry and is not the root,
\* yields the empty list.
C1_NonEmptyOnlyIfInForestOrRoot ==
    CallDone =>
        LET id == Unwrap(call_id)
        IN  /\ output # <<>> => id \in DOMAIN visibility_forest \/ id = inner.root
            /\ id \notin DOMAIN inner.index => output = <<>>
            /\ id \notin DOMAIN visibility_forest /\ id # inner.root => output = <<>>

\* a call on an indexed item that is not in the forest has returned nothing, in a
\* snapshot where other items have paths
C1_Witness ==
    /\ CallDone
    /\ pc = "call"
    /\ Unwrap(call_id) \in DOMAIN inner.index
    /\ Unwrap(call_id) \notin DOMAIN visibility_forest
    /\ Unwrap(call_id) # inner.root
    /\ inner.index[Unwrap(call_id)].name # None
    /\ output = <<>>
    /\ last_call.paths # <<>>

---------------------------------------------------------------------------
(* C2 *)

\* C2: publicly_importable_names(id) returns exactly the name sequences of the
\* forest-parent chains from id up to the root that visit no item twice and
\* never enter a struct, union or impl once a name is on the stack.
C2_ExactlyTheCycleFreeChains ==
    CallDone /\ Unwrap(call_id) \in DOMAIN inner.index =>
        Range(output) = ChainPaths(Unwrap(call_id), {})

\* a call has returned two paths of an item whose chains meet a cycle: some item
\* of a chain has a forest parent that the chain has already visited
C2_Witness ==
    /\ CallDone
    /\ Cardinality(Range(output)) >= 2
    /\ \E c \in ChainsFrom(Unwrap(call_id), {}) :
           \E k \in 1..Len(c) : \E j \in 1..k :
               c[j] \in Range(visibility_forest[c[k]])

---------------------------------------------------------------------------
(* C3 *)

NumItems == Cardinality(DOMAIN inner.index)

\* C3: on every snapshot, those with direct, indirect and mutual re-export cycles
\* included, the construction of the forest ends, every call of
\* publicly_importable_names ends, neither recursion is ever deeper than the
\* snapshot has items, and no returned path has more components than the
\* snapshot has items.  (A panic ends the program too.)
C3_Terminates ==
    /\ [](Len(visit_frames) <= NumItems /\ Len(collect_frames) <= NumItems)
    /\ [](CallDone => \A i \in 1..Len(output) : Len(output[i]) <= NumItems)
    /\ (pc = "new") ~> (pc \in {"ready", "panicked"})
    /\ (pc = "call") ~> (pc \in {"ready", "panicked"})

\* a call has returned on a snapshot whose forest has a cycle of re-exports that
\* the forest builder met while the item was still being visited
C3_Witness ==
    /\ pc = "ready"
    /\ calls_made > 0
    /\ last_call.paths # <<>>
    /\ \E id \in DOMAIN visibility_forest : \E c \in ChainsFrom(id, {}) :
           \E k \in 1..Len(c) : \E j \in 1..k :
               c[j] \in Range(visibility_forest[c[k]])

---------------------------------------------------------------------------
(* C4 *)

\* the parent lists of the forest are in strictly increasing order of id
ForestSorted ==
    \A id \in DOMAIN visibility_forest :
        \A i \in 1..Len(visibility_forest[id]) : \A j \in 1..Len(visibility_forest[id]) :
            i < j => visibility_forest[id][i] < visibility_forest[id][j]

\* C4: a call of publicly_importable_names(id) that follows a call with the same
\* id on the same IndexedCrate returns the same paths in the same order; the
\* parent lists of the forest are sorted by id; and once IndexedCrate::new has
\* returned no step changes the visibility forest, the import index or the impl
\* index.
C4_RepeatedCallsAgree ==
    /\ [][Return /\ last_call.id = call_id => output = last_call.paths]_vars
    /\ [][Constructed =>
            UNCHANGED <<visibility_forest, imports_index, impl_index>>]_vars
    /\ [](Constructed => ForestSorted)

\* the second of two calls with the same id is about to return the two paths the
\* first one returned, for an item with two forest parents
C4_Witness ==
    /\ pc = "call"
    /\ CallDone
    /\ last_call.id = call_id
    /\ Len(output) >= 2
    /\ output = last_call.paths
    /\ Len(visibility_forest[Unwrap(call_id)]) >= 2
    /\ imports_index # <<>>

---------------------------------------------------------------------------
(* C5 *)

\* the visibilities the claim says are kept
Kept(id) ==
    \/ inner.index[id].visibility \in {"Public", "Default"}
    \/ inner.index[id].visibility = "Crate" /\ KindOf(id) = "Impl"

\* the indexed items a module lists, and the impl blocks a type lists
DeclaredIn(m) ==
    LET payload == inner.index[m].inner
    IN  (CASE payload.kind = "Module" -> Range(payload.items)
           [] payload.kind \in {"Struct", "Enum", "Union"} -> Range(payload.impls)
           [] OTHER -> {}) \cap DOMAIN inner.index

\* the forest parents that re-exports give to item x: the non-glob imports and
\* the aliases of x that are in the forest, and the forest parents of the glob
\* imports of a module or enum that lists x
ThroughReexports(x) ==
    LET F == DOMAIN visibility_forest
        Lists(t) == /\ t \in DOMAIN inner.index
                    /\ \/ KindOf(t) = "Module" /\ x \in Range(inner.index[t].inner.items)
                       \/ KindOf(t) = "Enum" /\ x \in Range(inner.index[t].inner.variants)
    IN  {i \in F : /\ KindOf(i) = "Import"
                   /\ ~inner.index[i].inner.glob
                   /\ inner.index[i].inner.id = Some(x)}
        \cup {t \in F : /\ KindOf(t) = "Typedef"
                        /\ inner.index[t].inner.type_.tag = "ResolvedPath"
                        /\ inner.index[t].inner.type_.id = x}
        \cup UNION {Range(visibility_forest[g]) :
                      g \in {g \in F : /\ KindOf(g) = "Import"
                                       /\ inner.index[g].inner.glob
                                       /\ IsSome(inner.index[g].inner.id)
                                       /\ Lists(Unwrap(inner.index[g].inner.id))}}

\* the named items listed by a module that the filter drops
HiddenItems ==
    {x \in DOMAIN inner.index :
        /\ x # inner.root
        /\ inner.index[x].name # None
        /\ \E m \in DOMAIN inner.index :
              KindOf(m) = "Module" /\ ~Kept(m) /\ x \in DeclaredIn(m)}

\* C5: an item is kept iff its visibility is Public, Default, or Crate on an
\* impl: at every moment every item with a parents entry and every recorded
\* parent is a kept item, and every kept item that a module or a type of the
\* forest lists has that module or type as a forest parent; a named item that
\* only a dropped module lists has no forest parents but those that re-exports
\* give it, has no path when it has no forest entry, and every path it has
\* comes from a chain that continues with a re-export.
C5_VisibilityFilter ==
    /\ \A id \in DOMAIN parents : Kept(id) /\ \A p \in parents[id] : Kept(p)
    /\ \A id \in DOMAIN visibility_forest :
          Kept(id) /\ \A p \in Range(visibility_forest[id]) : Kept(p)
    /\ Constructed =>
          /\ \A m \in DOMAIN visibility_forest : \A c \in DeclaredIn(m) :
                Kept(c) <=> /\ c \in DOMAIN visibility_forest
                            /\ m \in Range(visibility_forest[c])
          /\ \A x \in HiddenItems :
                /\ x \in DOMAIN visibility_forest =>
                      /\ visibility_forest[x] # <<>>
                      /\ Range(visibility_forest[x]) \subseteq ThroughReexports(x)
                /\ x \notin DOMAIN visibility_forest => Names(x).paths = <<>>
                /\ ~Names(x).panic
                /\ Range(Names(x).paths) \subseteq
                      {Reverse(ChainStack(c, Len(c))) :
                          c \in {c \in ChainsFrom(x, {}) :
                                    Len(c) >= 2 /\ c[2] \in ThroughReexports(x)}}

\* a public function of a module that is not public has a path through a
\* re-export in the root, and the module has no forest entry
C5_Witness ==
    /\ pc = "ready"
    /\ 1 \in DOMAIN inner.index
    /\ KindOf(1) = "Module"
    /\ ~Kept(1)
    /\ 1 \notin DOMAIN visibility_forest
    /\ 4 \in HiddenItems
    /\ inner.index[4].visibility = "Public"
    /\ 4 \in DOMAIN visibility_forest
    /\ Names(4).paths # <<>>

---------------------------------------------------------------------------
(* C6 *)

\* the set of paths publicly_importable_names(id) returns
Paths(id) == Range(Names(id).paths)

\* the items a module or an enum brings into a glob import of it
GlobContents(t) ==
    (CASE KindOf(t) = "Module" -> Range(inner.index[t].inner.items)
       [] KindOf(t) = "Enum" -> Range(inner.index[t].inner.variants)
       [] OTHER -> {}) \cap DOMAIN inner.index

\* [s, g, t, x]: the reachable module s lists the public glob import g of a
\* module or enum t that lists the public named item x
GlobSites ==
    {site \in [s : DOMAIN visibility_forest, g : DOMAIN inner.index,
               t : DOMAIN inner.index, x : DOMAIN inner.index] :
        /\ KindOf(site.s) = "Module"
        /\ site.g \in Range(inner.index[site.s].inner.items)
        /\ KindOf(site.g) = "Import"
        /\ inner.index[site.g].inner.glob
        /\ inner.index[site.g].visibility = "Public"
        /\ inner.index[site.g].inner.id = Some(site.t)
        /\ site.x \in GlobContents(site.t)
        /\ inner.index[site.x].name # None
        /\ Kept(site.x)}

\* the names of the glob imports of the snapshot
GlobNames ==
    {inner.index[g].inner.name :
        g \in {g \in DOMAIN inner.index :
                 KindOf(g) = "Import" /\ inner.index[g].inner.glob}}

---------------------------------------------------------------------------
(* C7 *)

\* the chains of forest parents from id up to target that visit no item twice
\* and none of seen, and do not pass the root
RECURSIVE ChainsBetween(_, _, _)
ChainsBetween(id, target, seen) ==
    IF id = target THEN {<<id>>}
    ELSE IF id = inner.root \/ id \notin DOMAIN visibility_forest THEN {}
    ELSE UNION {{<<id>> \o c : c \in ChainsBetween(p, target, seen \cup {id})} :
                  p \in Range(visibility_forest[id]) \ (seen \cup {id})}

PathOf(c) == Reverse(ChainStack(c, Len(c)))

NamedItems == {y \in DOMAIN inner.index : inner.index[y].name # None}

\* [s, i, x]: the reachable module s lists the public non-glob import i of the
\* public named item x
ImportSites ==
    {site \in [s : DOMAIN visibility_forest, i : DOMAIN inner.index, x : NamedItems] :
        /\ KindOf(site.s) = "Module"
        /\ site.i \in Range(inner.index[site.s].inner.items)
        /\ KindOf(site.i) = "Import"
        /\ ~inner.index[site.i].inner.glob
        /\ inner.index[site.i].visibility = "Public"
        /\ inner.index[site.i].inner.id = Some(site.x)
        /\ Kept(site.x)}

IsPrefix(p, q) == Len(p) <= Len(q) /\ SubSeq(q, 1, Len(p)) = p

\* C7 as stated: for a public import named n of x in a reachable module, p ++ [n]
\* is a path of x for every path p of the module; when x is a module, every path
\* px ++ r of an item y under a path px of x also gives the path p ++ [n] ++ r.
C7_RenamingImportAsStated ==
    pc = "ready" =>
        \A site \in ImportSites :
            LET n == inner.index[site.i].inner.name
            IN  /\ \A p \in Paths(site.s) : Append(p, n) \in Paths(site.x)
                /\ KindOf(site.x) = "Module" =>
                      \A y \in NamedItems : \A px \in Paths(site.x) :
                          \A q \in {q \in Paths(y) : IsPrefix(px, q) /\ q # px} :
                              \A p \in Paths(site.s) :
                                  Append(p, n) \o SubSeq(q, Len(px) + 1, Len(q))
                                      \in Paths(y)

\* C7: for a public import named n of x in a reachable module s, and a chain of
\* forest parents from an item y up to x (y = x, or y under the module or enum
\* x) that gives y the name sequence r below x, p ++ [n] ++ r is a path of y for
\* every path p of s whose chain visits none of the items of the chain from y
\* to x.
C7_RenamingImport ==
    pc = "ready" =>
        \A site \in ImportSites : \A y \in NamedItems :
            \A pre \in {c \in ChainsBetween(y, site.x, {site.i}) : ChainEnterable(c)} :
                site.s \notin Range(pre) =>
                    \A p \in ChainPaths(site.s, Range(pre) \cup {site.i}) :
                        /\ Len(pre) > 1 => KindOf(site.x) \in {"Module", "Enum"}
                        /\ PathOf(pre) # <<>>
                        /\ Append(p, inner.index[site.i].inner.name)
                               \o Tail(PathOf(pre)) \in Paths(y)

\* a module reached by a path has a public import that renames a function, and
\* the function has the path with the new name; a second import renames a
\* module, and an item under the module has a path under the new name
C7_Witness ==
    /\ pc = "ready"
    /\ \E site \in ImportSites :
          /\ inner.index[site.i].inner.name # Unwrap(inner.index[site.x].name)
          /\ KindOf(site.x) = "Function"
          /\ \E p \in ChainPaths(site.s, {site.x, site.i}) :
                Append(p, inner.index[site.i].inner.name) \in Paths(site.x)
    /\ \E site \in ImportSites : \E y \in NamedItems :
          /\ KindOf(site.x) = "Module"
          /\ inner.index[site.i].inner.name # Unwrap(inner.index[site.x].name)
          /\ \E pre \in ChainsBetween(y, site.x, {site.i}) :
                /\ Len(pre) > 1
                /\ site.s \notin Range(pre)
                /\ ChainPaths(site.s, Range(pre) \cup {site.i}) # {}

---------------------------------------------------------------------------
(* C8 *)

\* the named items of the forest all of whose forest parents are structs, unions
\* or impls
TypeMembers ==
    {x \in NamedItems \cap DOMAIN visibility_forest :
        /\ visibility_forest[x] # <<>>
        /\ \A p \in Range(visibility_forest[x]) :
              KindOf(p) \in {"Struct", "Union", "Impl"}}

\* the structs, unions and enums that hold x: as a field or variant, or as an
\* item of one of their impls
HoldersOf(x) ==
    LET direct == Range(visibility_forest[x])
        over == UNION {Range(visibility_forest[i]) :
                         i \in {i \in direct : KindOf(i) = "Impl"}}
    IN  {t \in direct \cup over : KindOf(t) \in {"Struct", "Union", "Enum"}}

\* the type t has the path p ++ [name of t] for every path p of every module
\* that is a forest parent of t
KeepsModulePath(t) ==
    /\ ~Names(t).panic
    /\ \A m \in Range(visibility_forest[t]) :
          KindOf(m) = "Module" =>
              \A p \in ChainPaths(m, {t}) : p \o inner.index[t].name \in Paths(t)

\* C8: a named item all of whose forest parents are structs, unions or impls
\* has a forest entry, and publicly_importable_names returns the empty list for
\* it without a panic, while the struct or union that holds it has its path
\* under every module that lists it.
C8_TypeMembersNotImportable ==
    pc = "ready" =>
        \A x \in TypeMembers :
            /\ Names(x) = [panic |-> FALSE, paths |-> <<>>]
            /\ \A t \in HoldersOf(x) :
                  KindOf(t) \in {"Struct", "Union"} => KeepsModulePath(t)

\* a struct or union of the root has a field and, in an impl block, a method
\* and a constant; all three are in the forest, and the type has its path
C8_Witness ==
    /\ pc = "ready"
    /\ {2, 4, 7} \subseteq TypeMembers
    /\ KindOf(2) = "StructField"
    /\ KindOf(3) = "Impl"
    /\ HoldersOf(2) = {1}
    /\ HoldersOf(4) = {1}
    /\ <<"crate", "Foo">> \in Paths(1)
    /\ Cardinality(Paths(1)) >= 2

---------------------------------------------------------------------------
(* C9 *)

\* [e, v]: the enum e of the forest lists the kept named variant v
EnumVariants ==
    {ev \in [e : DOMAIN visibility_forest, v : NamedItems] :
        /\ KindOf(ev.e) = "Enum"
        /\ ev.v \in Range(inner.index[ev.e].inner.variants)
        /\ Kept(ev.v)}

\* [e, m]: an impl block of the enum e of the forest lists the kept named item m
EnumImplItems ==
    {em \in [e : DOMAIN visibility_forest, m : NamedItems] :
        /\ KindOf(em.e) = "Enum"
        /\ Kept(em.m)
        /\ \E i \in Range(inner.index[em.e].inner.impls) \cap DOMAIN visibility_forest :
              KindOf(i) = "Impl" /\ em.m \in Range(inner.index[i].inner.items)}

\* C9: a variant of an enum is importable as p ++ [variant] for every path p
\* that publicly_importable_names returns for the enum, whereas the named items
\* of the enum's impl blocks have forest entries and no path.
C9_EnumVariantsImportable ==
    pc = "ready" =>
        /\ \A ev \in EnumVariants :
              /\ ~Names(ev.e).panic
              /\ \A p \in Paths(ev.e) : p \o inner.index[ev.v].name \in Paths(ev.v)
        /\ \A em \in EnumImplItems :
              /\ em.m \in DOMAIN visibility_forest
              /\ Names(em.m) = [panic |-> FALSE, paths |-> <<>>]

\* an enum with two paths has a variant with two paths, and an impl block whose
\* method is in the forest
C9_Witness ==
    /\ pc = "ready"
    /\ \E ev \in EnumVariants :
          /\ Cardinality(Paths(ev.e)) >= 2
          /\ Cardinality(Paths(ev.v)) >= 2
          /\ \E em \in EnumImplItems : em.e = ev.e /\ KindOf(em.m) = "Function"

---------------------------------------------------------------------------
(* C10 *)

\* [s, a, b]: the reachable module s lists the public alias a, which has no
\* generic parameters and names the public struct b, itself without generic
\* parameters, with no generic arguments
PlainAliases ==
    {site \in [s : DOMAIN visibility_forest, a : NamedItems, b : NamedItems] :
        /\ KindOf(site.s) = "Module"
        /\ site.a \in Range(inner.index[site.s].inner.items)
        /\ KindOf(site.a) = "Typedef"
        /\ inner.index[site.a].visibility = "Public"
        /\ inner.index[site.a].inner.generics.params = <<>>
        /\ inner.index[site.a].inner.type_.tag = "ResolvedPath"
        /\ inner.index[site.a].inner.type_.id = site.b
        /\ inner.index[site.a].inner.type_.args \in {None, NoArgs}
        /\ KindOf(site.b) = "Struct"
        /\ inner.index[site.b].inner.generics.params = <<>>
        /\ Kept(site.b)}

\* C10: for a public alias `type Foo = Bar` without generic parameters of a
\* struct Bar without generic parameters, Foo is a forest parent of Bar, and for
\* every path p of the module that lists Foo, p ++ [Foo] is returned both for
\* Bar and for Foo.
C10_PlainAliasIsReexport ==
    pc = "ready" =>
        \A site \in PlainAliases :
            /\ site.a \in DOMAIN visibility_forest
            /\ site.b \in DOMAIN visibility_forest
            /\ site.a \in Range(visibility_forest[site.b])
            /\ ~Names(site.a).panic /\ ~Names(site.b).panic /\ ~Names(site.s).panic
            /\ Paths(site.s) # {}
            /\ \A p \in Paths(site.s) :
                  /\ p \o inner.index[site.a].name \in Paths(site.b)
                  /\ p \o inner.index[site.a].name \in Paths(site.a)

\* the struct Bar of a module that is not public has the path crate::Foo of its
\* alias and no path with its own name; the alias has the same path
C10_Witness ==
    /\ pc = "ready"
    /\ \E site \in PlainAliases :
          /\ inner.index[site.a].name = Some("Foo")
          /\ inner.index[site.b].name = Some("Bar")
          /\ <<"crate", "Foo">> \in Paths(site.b)
          /\ <<"crate", "Foo">> \in Paths(site.a)
          /\ \A p \in Paths(site.b) : "Bar" \notin Range(p)

---------------------------------------------------------------------------
(* C11 *)

\* [s, a, b]: the reachable module s lists the public alias a, whose type is a
\* path to the indexed item b
AliasSites ==
    {site \in [s : DOMAIN visibility_forest, a : NamedItems, b : DOMAIN inner.index] :
        /\ KindOf(site.s) = "Module"
        /\ site.a \in Range(inner.index[site.s].inner.items)
        /\ KindOf(site.a) = "Typedef"
        /\ inner.index[site.a].visibility = "Public"
        /\ inner.index[site.a].inner.type_.tag = "ResolvedPath"
        /\ inner.index[site.a].inner.type_.id = site.b}

AliasParams(a) == inner.index[a].inner.generics.params

\* the generic arguments the alias writes after its target, none when it
\* writes no angle brackets
PassedArgs(a) ==
    LET args == inner.index[a].inner.type_.args
    IN  IF IsSome(args) /\ Unwrap(args).tag = "AngleBracketed"
        THEN Unwrap(args).args ELSE <<>>

\* the parameter or lifetime an argument names, None for any other argument
ArgName(g) ==
    CASE g.tag = "Lifetime" -> Some(g.value)
      [] g.tag = "Const" -> Some(g.value)
      [] g.tag = "Type" /\ g.value.tag = "Generic" -> Some(g.value.name)
      [] OTHER -> None

\* the alias passes exactly its own parameters, in another order
Reordered(a) ==
    LET tp == AliasParams(a)
        args == PassedArgs(a)
    IN  /\ Len(tp) >= 2
        /\ Len(args) = Len(tp)
        /\ {ArgName(args[i]) : i \in 1..Len(args)} = {Some(tp[i].name) : i \in 1..Len(tp)}
        /\ Cardinality({tp[i].name : i \in 1..Len(tp)}) = Len(tp)
        /\ \E i \in 1..Len(tp) : ArgName(args[i]) # Some(tp[i].name)

\* the alias a forwards nothing to b: it is no forest parent of b and its name
\* is in no path of b
ForwardsNothing(a, b) ==
    /\ b \in DOMAIN visibility_forest => a \notin Range(visibility_forest[b])
    /\ ~Names(b).panic
    /\ \A p \in Paths(b) : Unwrap(inner.index[a].name) \notin Range(p)

\* the alias a of module s has the path p ++ [a] for every path p of s
HasOwnPaths(s, a) ==
    /\ a \in DOMAIN visibility_forest
    /\ ~Names(a).panic
    /\ Paths(s) # {}
    /\ \A p \in Paths(s) : p \o inner.index[a].name \in Paths(a)

\* C11: an alias that passes its generic parameters to the target in another
\* order (lifetimes, types or consts) is not a forest parent of the target, no
\* path of the target has the alias's name, and the alias has its own path.
C11_ReorderedAliasForwardsNothing ==
    pc = "ready" =>
        \A site \in AliasSites :
            Reordered(site.a) => ForwardsNothing(site.a, site.b) /\ HasOwnPaths(site.s, site.a)

\* `type Foo<'a, 'b> = Bar<'b, 'a>` on a struct Bar with two lifetime
\* parameters: Bar has its path under inner only, Foo has crate::Foo
C11_Witness ==
    /\ pc = "ready"
    /\ \E site \in AliasSites :
          /\ Reordered(site.a)
          /\ AliasParams(site.a)[1].kind.tag = "Lifetime"
          /\ KindOf(site.b) = "Struct"
          /\ Len(inner.index[site.b].inner.generics.params) = 2
          /\ \A i \in 1..2 :
                inner.index[site.b].inner.generics.params[i].kind.tag = "Lifetime"
          /\ Paths(site.b) = {<<"crate", "inner", "Bar">>}
          /\ Paths(site.a) = {<<"crate", "Foo">>}

---------------------------------------------------------------------------
(* C12 *)

\* the aliases of the snapshot
Aliases == {a \in NamedItems : KindOf(a) = "Typedef"}

\* what get_typedef_equivalent_reexport_target returns for the alias a
TargetOf(a) == GetTypedefEquivalentReexportTarget(inner, inner.index[a].inner)

\* every argument the alias passes is its own parameter of the same position
PassesOwnParams(a) ==
    \A i \in 1..Len(PassedArgs(a)) :
        /\ i <= Len(AliasParams(a))
        /\ ArgName(PassedArgs(a)[i]) = Some(AliasParams(a)[i].name)

\* the forest parents of b that are aliases
AliasParents(b) == {a \in Range(visibility_forest[b]) : KindOf(a) = "Typedef"}

\* the alias declares the parameters of its target, up to their names, and
\* passes them on in order
RenamesOnly(a, b) ==
    LET tp == AliasParams(a)
        up == inner.index[b].inner.generics.params
    IN  /\ KindOf(b) = "Struct"
        /\ Len(tp) = Len(up)
        /\ \A i \in 1..Len(tp) : tp[i].kind = up[i].kind
        /\ PassedArgs(a) = IdentityArgs(tp)
        /\ IsSome(inner.index[a].inner.type_.args)
        /\ Unwrap(inner.index[a].inner.type_.args).bindings = <<>>

\* C12: get_typedef_equivalent_reexport_target returns a target only for an
\* alias of a path, each of whose generic arguments is the alias's own parameter
\* of the same position, and only such an alias is a forest parent of its
\* target; an alias that differs from its target's declaration in the names of
\* the parameters only gets the target back and forwards its path to it.
C12_ArgumentsAreOwnParameters ==
    pc = "ready" =>
        /\ \A a \in Aliases :
              IsSome(TargetOf(a).target) =>
                  /\ inner.index[a].inner.type_.tag = "ResolvedPath"
                  /\ Unwrap(TargetOf(a).target) = inner.index[a].inner.type_.id
                  /\ PassesOwnParams(a)
        /\ \A b \in DOMAIN visibility_forest : \A a \in AliasParents(b) :
              /\ inner.index[a].inner.type_.tag = "ResolvedPath"
              /\ inner.index[a].inner.type_.id = b
              /\ PassesOwnParams(a)
        /\ \A site \in AliasSites :
              RenamesOnly(site.a, site.b) =>
                  /\ TargetOf(site.a) = [panic |-> FALSE, target |-> Some(site.b)]
                  /\ site.a \in AliasParents(site.b)
                  /\ \A p \in Paths(site.s) :
                        p \o inner.index[site.a].name \in Paths(site.b)

\* an alias with two parameters passes them in order to a struct that declares
\* them under other names: the struct has the alias's path
C12_Witness ==
    /\ pc = "ready"
    /\ \E site \in AliasSites :
          /\ RenamesOnly(site.a, site.b)
          /\ Len(AliasParams(site.a)) = 2
          /\ \A i \in 1..2 :
                AliasParams(site.a)[i].name
                    # inner.index[site.b].inner.generics.params[i].name
          /\ <<"crate", "Foo">> \in Paths(site.b)

---------------------------------------------------------------------------
(* C13 *)

\* the generic parameters the item b declares
ParamsOf(b) ==
    IF KindOf(b) \in {"Struct", "Enum", "Union", "Trait", "Typedef"}
    THEN inner.index[b].inner.generics.params
    ELSE <<>>

\* C13: get_typedef_equivalent_reexport_target returns a target only for an
\* alias that declares as many generic parameters as the target, and only such
\* an alias is a forest parent of its target; an alias without parameters of a
\* target with parameters forwards no path.
C13_SameNumberOfParameters ==
    pc = "ready" =>
        /\ \A a \in Aliases :
              IsSome(TargetOf(a).target) =>
                  Len(AliasParams(a)) = Len(ParamsOf(Unwrap(TargetOf(a).target)))
        /\ \A b \in DOMAIN visibility_forest : \A a \in AliasParents(b) :
              Len(AliasParams(a)) = Len(ParamsOf(b))

---------------------------------------------------------------------------
(* C14 *)

\* the alias's parameter t and the target's parameter u are of one kind, with
\* the same default (types, consts) and the same declared type (consts)
PairMatches(t, u) ==
    /\ t.kind.tag = u.kind.tag
    /\ t.kind.tag \in {"Type", "Const"} => t.kind.default = u.kind.default
    /\ t.kind.tag = "Const" => t.kind.type_ = u.kind.type_

\* every pair of parameters of the alias a and the item b matches
AllPairsMatch(a, b) ==
    \A i \in 1..Len(AliasParams(a)) :
        i <= Len(ParamsOf(b)) => PairMatches(AliasParams(a)[i], ParamsOf(b)[i])

\* some parameter has a default on one side that the other side lacks or has
\* with another value
DefaultDiffers(a, b) ==
    \E i \in 1..Len(AliasParams(a)) :
        /\ i <= Len(ParamsOf(b))
        /\ AliasParams(a)[i].kind.tag = ParamsOf(b)[i].kind.tag
        /\ AliasParams(a)[i].kind.default # ParamsOf(b)[i].kind.default

\* C14: get_typedef_equivalent_reexport_target returns a target only if every
\* pair of alias and target parameters has the same kind, the same default
\* (types, consts) and the same declared type (consts), and only such an alias
\* is a forest parent; an alias that adds, drops or changes a default forwards
\* no path to the target and keeps its own.
C14_KindsAndDefaultsMatch ==
    pc = "ready" =>
        /\ \A a \in Aliases :
              IsSome(TargetOf(a).target) => AllPairsMatch(a, Unwrap(TargetOf(a).target))
        /\ \A b \in DOMAIN visibility_forest : \A a \in AliasParents(b) :
              AllPairsMatch(a, b)
        /\ \A site \in AliasSites :
              DefaultDiffers(site.a, site.b) =>
                  /\ TargetOf(site.a) = [panic |-> FALSE, target |-> None]
                  /\ ForwardsNothing(site.a, site.b)
                  /\ HasOwnPaths(site.s, site.a)

\* an alias passes its one type parameter on in order but gives it a default
\* the struct does not have: the struct keeps its path under inner only
C14_Witness ==
    /\ pc = "ready"
    /\ \E site \in AliasSites :
          /\ DefaultDiffers(site.a, site.b)
          /\ Len(AliasParams(site.a)) = 1
          /\ Len(ParamsOf(site.b)) = 1
          /\ AliasParams(site.a)[1].kind.tag = "Type"
          /\ PassedArgs(site.a) = IdentityArgs(AliasParams(site.a))
          /\ Paths(site.b) = {<<"crate", "inner", "Bar">>}
          /\ Paths(site.a) = {<<"crate", "Foo">>}

---------------------------------------------------------------------------
(* C15 *)

\* the alias a is equivalent to the item b: it names b, declares as many
\* parameters as b, of matching kinds, defaults and types, and passes exactly
\* its own parameters in order, with no bindings
EquivalentTo(a, b) ==
    LET ty == inner.index[a].inner
    IN  /\ ty.type_.tag = "ResolvedPath"
        /\ ty.type_.id = b
        /\ b \in DOMAIN inner.index
        /\ KindOf(b) \in {"Struct", "Enum", "Union", "Trait", "Typedef"}
        /\ IsSome(ty.type_.args) => Unwrap(ty.type_.args).bindings = <<>>
        /\ Len(AliasParams(a)) = Len(ParamsOf(b))
        /\ Len(PassedArgs(a)) = Len(AliasParams(a))
        /\ PassesOwnParams(a)
        /\ AllPairsMatch(a, b)

\* [e, a, t]: the alias e of module se is equivalent to the alias a of module
\* sa, which is equivalent to t
AliasChains ==
    LET equivalent == {site \in AliasSites : EquivalentTo(site.a, site.b)}
    IN  UNION {{[se |-> up.s, e |-> up.a, sa |-> low.s, a |-> low.a, t |-> low.b] :
                    low \in {site \in equivalent : site.a = up.b}} :
               up \in equivalent}

\* the alias e of the alias a passes an argument that is not its own parameter
\* of that position, or has another default than a
ChangesAlias(e, a) ==
    /\ KindOf(a) = "Typedef"
    /\ IsSome(inner.index[e].inner.type_.args)
    /\ ~PassesOwnParams(e) \/ DefaultDiffers(e, a)

\* C15: when alias e is equivalent to alias a and a is equivalent to t, then
\* p ++ [a] is a path of t for every path p of a's module, and q ++ [e] is a
\* path of t and of a for every path q of e's module; an alias of an alias that
\* changes an argument, reorders the arguments or changes a default is no forest
\* parent of the alias, its name is in no path of another item, and its paths
\* are its own: q ++ [e] for the paths q of its module.
C15_AliasChains ==
    pc = "ready" =>
        /\ \A ch \in AliasChains :
              /\ ~Names(ch.t).panic /\ ~Names(ch.a).panic
              /\ \A p \in Paths(ch.sa) : p \o inner.index[ch.a].name \in Paths(ch.t)
              /\ \A q \in Paths(ch.se) :
                    /\ q \o inner.index[ch.e].name \in Paths(ch.t)
                    /\ q \o inner.index[ch.e].name \in Paths(ch.a)
        /\ \A site \in AliasSites :
              ChangesAlias(site.a, site.b) =>
                  /\ ForwardsNothing(site.a, site.b)
                  /\ \A x \in NamedItems \ {site.a} : \A p \in Paths(x) :
                        Unwrap(inner.index[site.a].name) \notin Range(p)
                  /\ ~Names(site.a).panic
                  /\ Paths(site.a) =
                        {q \o inner.index[site.a].name : q \in Paths(site.s)}

\* Exported<'x, X> = Foo<'x, X> and Foo<'a, A> = Bar<'a, A>: the struct Bar has
\* the three paths crate::inner::Bar, crate::Foo and crate::Exported
C15_Witness ==
    /\ pc = "ready"
    /\ \E ch \in AliasChains :
          /\ KindOf(ch.t) = "Struct"
          /\ Len(AliasParams(ch.e)) = 2
          /\ AliasParams(ch.e) # AliasParams(ch.a)
          /\ Paths(ch.t) = {<<"crate", "inner", "Bar">>, <<"crate", "Foo">>,
                             <<"crate", "Exported">>}
          /\ Paths(ch.a) = {<<"crate", "Foo">>, <<"crate", "Exported">>}
          /\ Paths(ch.e) = {<<"crate", "Exported">>}

\* Exported<A = 2> = Foo<A> and Foo<A = 1> = Bar<A>: Exported forwards nothing
C15_WitnessChanged ==
    /\ pc = "ready"
    /\ \E site \in AliasSites :
          /\ ChangesAlias(site.a, site.b)
          /\ DefaultDiffers(site.a, site.b)
          /\ PassesOwnParams(site.a)
          /\ Paths(site.a) = {<<"crate", "Exported">>}
          /\ Cardinality(Paths(site.b)) = 1

---------------------------------------------------------------------------
(* C16 *)

\* the items filed under the path p
ItemsAt(p) == BagToSet(imports_index[p])

\* the items IndexedCrate::new looks the paths up for
IndexedItems ==
    {i \in DOMAIN inner.index :
        KindOf(i) \in {"Struct", "StructField", "Enum", "Variant", "Function",
                       "Impl", "Trait"}}

\* C16: after construction, item i is in the import index's list of path p
\* exactly when i is a Struct, StructField, Enum, Variant, Function, Impl or
\* Trait item of the crate index and p is one of publicly_importable_names(i);
\* two different items with a common path are both in that path's list.
C16_ImportIndex ==
    pc = "ready" =>
        /\ \A p \in DOMAIN imports_index : \A i \in ItemsAt(p) :
              i \in IndexedItems /\ p \in Paths(i)
        /\ \A i \in IndexedItems : \A p \in Paths(i) :
              p \in DOMAIN imports_index /\ i \in ItemsAt(p)
        /\ \A i, j \in IndexedItems : \A p \in Paths(i) \cap Paths(j) :
              {i, j} \subseteq ItemsAt(p)

\* the struct Foo and the function Foo are both filed under crate::Foo
C16_Witness ==
    /\ pc = "ready"
    /\ <<"crate", "Foo">> \in DOMAIN imports_index
    /\ \E i, j \in ItemsAt(<<"crate", "Foo">>) :
          KindOf(i) = "Struct" /\ KindOf(j) = "Function"
    /\ \A p \in DOMAIN imports_index : ItemsAt(p) # {}

---------------------------------------------------------------------------
(* C17 *)

\* the pairs (impl item, member item) filed under (owner, name)
PairsAt(owner, name) ==
    IF <<owner, name>> \in DOMAIN impl_index
    THEN BagToSet(impl_index[<<owner, name>>])
    ELSE {}

\* [owner, block, trait]: block is in the index and listed among the impls of
\* the struct, enum or union owner, and implements the trait of the crate index
TraitImpls ==
    {x \in [owner : DOMAIN inner.index, block : DOMAIN inner.index,
            trait : DOMAIN inner.index] :
        /\ KindOf(x.owner) \in {"Struct", "Enum", "Union"}
        /\ x.block \in Range(inner.index[x.owner].inner.impls)
        /\ KindOf(x.block) = "Impl"
        /\ IsSome(inner.index[x.block].inner.trait_)
        /\ Unwrap(inner.index[x.block].inner.trait_).id = x.trait
        /\ KindOf(x.trait) = "Trait"}

\* the items of the index a trait or an impl block lists under the name
MembersNamed(holder, name) ==
    {m \in Range(inner.index[holder].inner.items) \cap DOMAIN inner.index :
        inner.index[m].name = Some(name)}

\* the names of the trait's items
TraitItemNames(trait) ==
    {Unwrap(inner.index[m].name) :
        m \in {x \in Range(inner.index[trait].inner.items) \cap DOMAIN inner.index :
                  IsSome(inner.index[x].name)}}

\* C17: after construction, for an impl block of a struct, enum or union that
\* implements a trait of the crate index, every item of the trait whose name is
\* among the block's provided trait methods is filed under (owner, name) as
\* (block, the trait's item); for a trait method the block declares itself,
\* (owner, name) holds (block, the block's member) and not (block, the trait's
\* item).
C17_ProvidedTraitMethods ==
    pc = "ready" =>
        \A x \in TraitImpls : \A name \in TraitItemNames(x.trait) :
            /\ name \in inner.index[x.block].inner.provided_trait_methods =>
                  \A t \in MembersNamed(x.trait, name) :
                      <<x.block, t>> \in PairsAt(x.owner, name)
            /\ MembersNamed(x.block, name) # {} =>
                  /\ \A m \in MembersNamed(x.block, name) :
                        <<x.block, m>> \in PairsAt(x.owner, name)
                  /\ \A t \in MembersNamed(x.trait, name) :
                        <<x.block, t>> \notin PairsAt(x.owner, name)

\* impl Tr for Foo { fn method() }: (Foo, "provided") is the trait's default and
\* (Foo, "method") is the member of the block
C17_Witness ==
    /\ pc = "ready"
    /\ \E x \in TraitImpls :
          /\ inner.index[x.block].inner.provided_trait_methods = {"provided"}
          /\ PairsAt(x.owner, "provided") = {<<x.block, 5>>}
          /\ PairsAt(x.owner, "method") = {<<x.block, 3>>}
          /\ MembersNamed(x.trait, "method") = {6}

---------------------------------------------------------------------------
(* C18 *)

\* the struct, enum and union items of the crate index
Owners == {o \in DOMAIN inner.index : KindOf(o) \in {"Struct", "Enum", "Union"}}

\* the impl blocks of the index the owner lists
BlocksOf(o) == Range(inner.index[o].inner.impls) \cap DOMAIN inner.index

\* the named items of the index the block lists
DeclaredMembers(b) ==
    {m \in Range(inner.index[b].inner.items) \cap DOMAIN inner.index :
        IsSome(inner.index[m].name)}

\* the named items of the block's trait that the block lists as provided
InheritedDefaults(b) ==
    LET t == inner.index[b].inner.trait_
    IN  IF IsSome(t) /\ Unwrap(t).id \in DOMAIN inner.index
           /\ KindOf(Unwrap(t).id) = "Trait"
        THEN {m \in DeclaredMembers(Unwrap(t).id) :
                 Unwrap(inner.index[m].name)
                     \in inner.index[b].inner.provided_trait_methods}
        ELSE {}

\* C18: after construction, for every struct, enum or union owner of the crate
\* index, whatever its visibility, every impl block b the owner lists and every
\* named member m the block lists, (b, m) is filed under (owner, name of m); and
\* every (b, m) filed under (owner, name) has a struct, enum or union owner that
\* lists the block b, m being a member the block lists or a provided trait
\* method it inherits, and the name of m being name.
C18_ImplIndex ==
    pc = "ready" =>
        /\ \A o \in Owners : \A b \in BlocksOf(o) : \A m \in DeclaredMembers(b) :
              <<b, m>> \in PairsAt(o, Unwrap(inner.index[m].name))
        /\ \A key \in DOMAIN impl_index : \A pair \in BagToSet(impl_index[key]) :
              /\ key[1] \in Owners
              /\ pair[1] \in BlocksOf(key[1])
              /\ KindOf(pair[1]) = "Impl"
              /\ pair[2] \in DeclaredMembers(pair[1]) \cup InheritedDefaults(pair[1])
              /\ inner.index[pair[2]].name = Some(key[2])

\* the members of the impl block of a crate-visible Foo are in the index
C18_Witness ==
    /\ pc = "ready"
    /\ \E o \in Owners :
          /\ inner.index[o].visibility = "Crate"
          /\ \E b \in BlocksOf(o) :
                /\ Cardinality(DeclaredMembers(b)) = 2
                /\ \A m \in DeclaredMembers(b) :
                      <<b, m>> \in PairsAt(o, Unwrap(inner.index[m].name))
                /\ \E m \in InheritedDefaults(b) : <<b, m>> \in PairsAt(o, "provided")

---------------------------------------------------------------------------
(* C19 *)

\* IndexedCrate::new is running
Constructing == pc \in {"new", "forest", "imports"}

\* C19: no step of IndexedCrate::new panics, whatever the snapshot: an id that
\* is missing from the crate index or that resolves to an item of an unexpected
\* kind is skipped.
C19_NewNeverPanics == [][Constructing => pc' # "panicked"]_vars

\* the three unreachable!() of IndexedCrate::new: an alias with an argument
\* list whose target is an extern type, a glob import of a function, and a
\* struct that lists a function among its impls
C19_PanicInAlias ==
    /\ pc = "panicked"
    /\ visit_frames # <<>>
    /\ \E a \in DOMAIN inner.index :
          /\ KindOf(a) = "Typedef"
          /\ a \in currently_visited_items
          /\ inner.index[a].inner.type_.tag = "ResolvedPath"
          /\ inner.index[a].inner.type_.id \in DOMAIN inner.index
          /\ KindOf(inner.index[a].inner.type_.id) = "ForeignType"

C19_PanicInGlobImport ==
    /\ pc = "panicked"
    /\ visit_frames # <<>>
    /\ \E u \in DOMAIN inner.index :
          /\ KindOf(u) = "Import"
          /\ u \in currently_visited_items
          /\ inner.index[u].inner.glob
          /\ inner.index[u].inner.id = Some(4)
          /\ KindOf(4) = "Function"

C19_PanicInImplIndex ==
    /\ pc = "panicked"
    /\ pending_items = <<>>
    /\ call_id = None
    /\ visibility_forest # <<>>
    /\ \E o \in Owners : \E b \in BlocksOf(o) : KindOf(b) = "Function"

\* an item of the index is of a kind the code calls unreachable
UnexpectedKind ==
    \/ \E a \in DOMAIN inner.index :
          /\ KindOf(a) = "Typedef"
          /\ inner.index[a].inner.type_.tag = "ResolvedPath"
          /\ IsSome(inner.index[a].inner.type_.args)
          /\ inner.index[a].inner.type_.id \in DOMAIN inner.index
          /\ KindOf(inner.index[a].inner.type_.id)
                \notin {"Struct", "Enum", "Trait", "Union", "Typedef"}
    \/ \E u \in DOMAIN inner.index :
          /\ KindOf(u) = "Import"
          /\ inner.index[u].inner.glob
          /\ IsSome(inner.index[u].inner.id)
          /\ Unwrap(inner.index[u].inner.id) \in DOMAIN inner.index
          /\ KindOf(Unwrap(inner.index[u].inner.id)) \notin {"Module", "Enum"}
    \/ \E o \in Owners : \E b \in BlocksOf(o) : KindOf(b) # "Impl"

\* an id the index lacks is listed by a module, an owner, an impl block, an
\* import or an alias
MissingId ==
    \/ \E x \in DOMAIN inner.index :
          \/ /\ KindOf(x) \in {"Module", "Impl", "Trait"}
             /\ ~(Range(inner.index[x].inner.items) \subseteq DOMAIN inner.index)
          \/ /\ KindOf(x) \in {"Struct", "Enum", "Union"}
             /\ ~(Range(inner.index[x].inner.impls) \subseteq DOMAIN inner.index)
          \/ /\ KindOf(x) = "Import"
             /\ IsSome(inner.index[x].inner.id)
             /\ Unwrap(inner.index[x].inner.id) \notin DOMAIN inner.index
          \/ /\ KindOf(x) = "Typedef"
             /\ inner.index[x].inner.type_.tag = "ResolvedPath"
             /\ inner.index[x].inner.type_.id \notin DOMAIN inner.index
    \/ inner.root \notin DOMAIN inner.index

\* what does hold: IndexedCrate::new panics only on an item of an unexpected
\* kind, and the forest and the indices it builds hold ids of the index only
C19_MissingIdsSkipped ==
    /\ [][Constructing /\ pc' = "panicked" => UnexpectedKind]_vars
    /\ [](pc = "ready" =>
            /\ DOMAIN visibility_forest \subseteq DOMAIN inner.index
            /\ \A x \in DOMAIN visibility_forest :
                  Range(visibility_forest[x]) \subseteq DOMAIN inner.index
            /\ \A k \in DOMAIN impl_index : \A pair \in BagToSet(impl_index[k]) :
                  {k[1], pair[1], pair[2]} \subseteq DOMAIN inner.index
            /\ \A p \in DOMAIN imports_index :
                  ItemsAt(p) \subseteq DOMAIN inner.index)

\* a snapshot with a missing id has been constructed
C19_MissingIdsWitness == pc = "ready" /\ MissingId /\ impl_index # <<>>

---------------------------------------------------------------------------
(* C20 *)

\* the vector holds no element twice
NoDuplicates(seq) == \A i, j \in 1..Len(seq) : seq[i] = seq[j] => i = j

\* how often the vector holds the element
Occurrences(seq, x) == Cardinality({i \in 1..Len(seq) : seq[i] = x})

\* the chains of id that spell the path p
ChainsSpelling(id, p) ==
    {c \in ChainsFrom(id, {}) :
        ChainEnterable(c) /\ Reverse(ChainStack(c, Len(c))) = p}

---------------------------------------------------------------------------
(* C21 *)

\* x is a non-glob import or an alias that the forest has as a parent of t: it
\* gives t, or the contents of a glob import it names, a name of its own
RenamesDirectly(x, t) ==
    /\ t \in DOMAIN visibility_forest
    /\ x \in Range(visibility_forest[t])
    /\ \/ KindOf(x) = "Import" /\ ~inner.index[x].inner.glob
       \/ KindOf(x) = "Typedef"

\* the imports and aliases that name the item, directly or through one another
RECURSIVE RenamersWithin(_, _)
RenamersWithin(targets, n) ==
    IF n = 0 THEN targets
    ELSE RenamersWithin(
             targets \cup {x \in DOMAIN inner.index :
                              \E t \in targets : RenamesDirectly(x, t)},
             n - 1)

RenamersOf(id) == RenamersWithin({id}, Cardinality(DOMAIN inner.index)) \ {id}

\* the name an import or an alias gives to what it names
GivenName(x) ==
    IF KindOf(x) = "Import" THEN inner.index[x].inner.name
    ELSE Unwrap(inner.index[x].name)

\* the names the item can end a path with: its own and those of its renamers
EndNames(id) ==
    Range(inner.index[id].name) \cup {GivenName(x) : x \in RenamersOf(id)}

RootFirst(p) == p # <<>> /\ <<p[1]>> = inner.index[inner.root].name

\* C21 as stated: every returned path is non-empty, begins with the root
\* module's name and ends with the item's own name or with the name of an
\* import or alias that renames the item.
C21_RootFirstPathsAsStated ==
    pc = "ready" =>
        \A id \in DOMAIN inner.index : \A p \in Paths(id) :
            RootFirst(p) /\ Last(p) \in EndNames(id)

\* C21: every returned path is non-empty and begins with the root module's
\* name; the path of an item that has a name ends with that name or with the
\* name of an import or alias that renames the item; an item without a name of
\* its own (an impl block, a glob import) has the paths of its forest parents:
\* those of the owning type, those of the module the glob import is in.
C21_RootFirstPaths ==
    pc = "ready" =>
        \A id \in DOMAIN inner.index : \A p \in Paths(id) :
            /\ RootFirst(p)
            /\ IsSome(inner.index[id].name) => Last(p) \in EndNames(id)
            /\ inner.index[id].name = None =>
                  /\ id \in DOMAIN visibility_forest
                  /\ \E parent \in Range(visibility_forest[id]) : p \in Paths(parent)

\* the function foo of inner has the path crate::bar through a renaming import,
\* and a path of three components
C21_Witness ==
    /\ pc = "ready"
    /\ \E id \in DOMAIN inner.index :
          /\ KindOf(id) = "Function"
          /\ \E p, q \in Paths(id) :
                /\ Len(p) = 3 /\ Last(p) = Unwrap(inner.index[id].name)
                /\ Len(q) = 2 /\ Last(q) # Unwrap(inner.index[id].name)
                /\ \E x \in RenamersOf(id) : GivenName(x) = Last(q)

\* the impl block of Foo has the path crate::Foo
C21_WitnessUnnamed ==
    /\ pc = "ready"
    /\ \E id \in DOMAIN inner.index :
          /\ KindOf(id) = "Impl"
          /\ Paths(id) # {}
          /\ \A p \in Paths(id) : Last(p) \notin EndNames(id)

---------------------------------------------------------------------------
(* C22 *)

\* the child rules: the visits <<child, parent>> that a visit of x with the
\* parent p makes.  A module, a type, a trait and an impl pass themselves as the
\* parent of what they list; a glob import passes p with the contents of its
\* target; a non-glob import and an equivalent alias pass themselves with
\* their target.
ChildVisits(x, p) ==
    LET payload == inner.index[x].inner
        Own(ids) == {<<c, Some(x)>> : c \in ids \cap DOMAIN inner.index}
    IN  CASE payload.kind \in {"Module", "Trait", "Impl"} -> Own(Range(payload.items))
          [] payload.kind = "Struct" ->
                Own(Range(payload.impls)
                    \cup (CASE payload.struct_kind = "Plain" -> Range(payload.fields)
                            [] payload.struct_kind = "Tuple" ->
                                  UNION {Range(f) : f \in Range(payload.fields)}
                            [] OTHER -> {}))
          [] payload.kind = "Union" ->
                Own(Range(payload.fields) \cup Range(payload.impls))
          [] payload.kind = "Enum" ->
                Own(Range(payload.variants) \cup Range(payload.impls))
          [] payload.kind = "Import" /\ payload.glob ->
                {<<c, p>> : c \in UNION {GlobContents(t) :
                                           t \in Range(payload.id) \cap DOMAIN inner.index}}
          [] payload.kind = "Import" /\ ~payload.glob -> Own(Range(payload.id))
          [] payload.kind = "Typedef" ->
                Own(Range(GetTypedefEquivalentReexportTarget(inner, payload).target))
          [] OTHER -> {}

\* the visits <<item, parent>> of kept items that the visit of x with parent p
\* leads to, no item being entered while it is being visited
RECURSIVE VisitsFrom(_, _, _)
VisitsFrom(x, p, active) ==
    IF ~Kept(x) THEN {}
    ELSE {<<x, p>>}
         \cup (IF x \in active THEN {}
               ELSE UNION {VisitsFrom(v[1], v[2], active \cup {x}) :
                              v \in ChildVisits(x, p)})

\* the visits from a public root of the index
RootVisits ==
    IF inner.root \in DOMAIN inner.index
       /\ inner.index[inner.root].visibility = "Public"
    THEN VisitsFrom(inner.root, None, {})
    ELSE {}

\* the kept items that n or fewer applications of the child rules reach from
\* the items of the set, whatever the order of the visits
RECURSIVE ReachedWithin(_, _)
ReachedWithin(items, n) ==
    IF n = 0 THEN items
    ELSE ReachedWithin(
             items \cup {c \in DOMAIN inner.index :
                            /\ Kept(c)
                            /\ \E x \in items : \E v \in ChildVisits(x, None) : v[1] = c},
             n - 1)

\* the items reached from a public root of the index
RootReached ==
    IF inner.root \in DOMAIN inner.index
       /\ inner.index[inner.root].visibility = "Public"
    THEN ReachedWithin({inner.root}, Cardinality(DOMAIN inner.index))
    ELSE {}

C22_WitnessNoRoot ==
    /\ pc = "ready"
    /\ inner.root \in DOMAIN inner.index
    /\ visibility_forest = <<>>

---------------------------------------------------------------------------
(* C23 *)

\* [i, x]: the forest builder has visited the non-glob import i, whose target
\* x is a kept item of the index
VisitedImports ==
    {site \in [i : DOMAIN visibility_forest, x : DOMAIN inner.index] :
        /\ KindOf(site.i) = "Import"
        /\ ~inner.index[site.i].inner.glob
        /\ inner.index[site.i].inner.id = Some(site.x)
        /\ site.x # site.i
        /\ Kept(site.x)
        /\ \E v \in RootVisits : v[1] = site.i /\ site.i \notin Range(v[2])}

ParentsOf(id) == Range(visibility_forest[id])

\* C23 as stated: the forest parents that the visit of a non-glob import records
\* for the imported item are the import's own parents, and the import itself is
\* no forest parent of the item.
C23_ImportPassesOwnParentAsStated ==
    pc = "ready" =>
        \A site \in VisitedImports :
            /\ site.x \in DOMAIN visibility_forest
            /\ ParentsOf(site.i) \subseteq ParentsOf(site.x)
            /\ site.i \notin ParentsOf(site.x)

\* C23: the forest parent that the visit of a non-glob import, renaming or not,
\* records for the imported item is the import itself; another parent of the
\* import is a parent of the item only where another visit, of the module that
\* lists the item or of a glob import, passes it.
C23_ImportIsTheParent ==
    pc = "ready" =>
        \A site \in VisitedImports :
            /\ site.x \in DOMAIN visibility_forest
            /\ site.i \in ParentsOf(site.x)
            /\ \A q \in (ParentsOf(site.i) \cap ParentsOf(site.x)) \ {site.i} :
                  \E v \in RootVisits :
                      /\ v[1] # site.i
                      /\ <<site.x, Some(q)>> \in ChildVisits(v[1], v[2])
                      /\ \/ v[1] = q
                         \/ KindOf(v[1]) = "Import" /\ inner.index[v[1]].inner.glob

\* pub use inner::foo as bar; in the root: the parents of the function foo are
\* the module inner and the import, and the root is none of them
C23_Witness ==
    /\ pc = "ready"
    /\ \E site \in VisitedImports :
          /\ KindOf(site.x) = "Function"
          /\ inner.index[site.i].inner.name # Unwrap(inner.index[site.x].name)
          /\ ParentsOf(site.i) = {inner.root}
          /\ ParentsOf(site.x) = {1, site.i}
          /\ KindOf(1) = "Module"

---------------------------------------------------------------------------
(* C24 *)

\* a call of publicly_importable_names is running or about to return
Enumerating == pc \in {"imports", "call"} /\ call_id # None

\* the ids of the calls of collect_publicly_importable_names that are active
ActiveChain == {collect_frames[k].id : k \in 1..Len(collect_frames)}

\* C24: while publicly_importable_names enumerates, the visited set holds
\* exactly the ids of the active calls: every call that inserted its id has
\* removed it when it returns.
C24_VisitedIsTheActiveChain == Enumerating => already_visited_ids = ActiveChain

\* publicly_importable_names of a struct field is about to return, and the
\* visited set still holds the struct, whose call returned at the prune
C24_StructLeftInVisited ==
    /\ CallDone
    /\ pc = "imports"
    /\ KindOf(Unwrap(call_id)) = "StructField"
    /\ output = <<>>
    /\ \E s \in already_visited_ids :
          /\ KindOf(s) = "Struct"
          /\ inner.index[s].inner.struct_kind = "Plain"
          /\ Unwrap(call_id) \in Range(inner.index[s].inner.fields)

\* what does hold: the visited set holds the ids of the active calls, and any
\* other id it holds is a struct, a union or an impl block that the prune
\* returned from
C24_OnlyPrunedItemsStay ==
    Enumerating =>
        /\ ActiveChain \subseteq already_visited_ids
        /\ \A x \in already_visited_ids \ ActiveChain :
              KindOf(x) \in {"Struct", "Union", "Impl"}

\* the enumeration has emitted two paths: the root, left after the first, has
\* been entered again on another branch
C24_VisitedAgain ==
    /\ Enumerating
    /\ Len(output) >= 2
    /\ already_visited_ids = ActiveChain

---------------------------------------------------------------------------
(* C25 *)

IsGlobImport(id) ==
    /\ id \in DOMAIN inner.index
    /\ KindOf(id) = "Import"
    /\ inner.index[id].inner.glob

\* [g, x]: the glob import g of the forest names a module or an enum that lists
\* the kept item x
GlobbedItems ==
    {site \in [g : DOMAIN visibility_forest, x : DOMAIN inner.index] :
        /\ IsGlobImport(site.g)
        /\ \E t \in Range(inner.index[site.g].inner.id) \cap DOMAIN inner.index :
              site.x \in GlobContents(t)
        /\ Kept(site.x)}

\* no glob import is a recorded parent, and the calls that enumerate a glob
\* import push and pop no name
GlobIsNeverAParent ==
    /\ \A id \in DOMAIN parents : \A p \in parents[id] : ~IsGlobImport(p)
    /\ \A id \in DOMAIN visibility_forest :
          \A p \in ParentsOf(id) : ~IsGlobImport(p)
    /\ \A k \in 1..Len(collect_frames) :
          IsGlobImport(collect_frames[k].id) =>
              collect_frames[k].push_name = None /\ collect_frames[k].popped_name = None

\* C25 as stated: no glob import is ever a forest parent, every item a glob
\* import brings in has every forest parent of the glob import as a forest
\* parent, and a glob import pushes no name.
C25_GlobPassesItsParentAsStated ==
    /\ GlobIsNeverAParent
    /\ pc = "ready" =>
          \A site \in GlobbedItems :
              /\ site.x \in DOMAIN visibility_forest
              /\ ParentsOf(site.g) \subseteq ParentsOf(site.x)

\* the visits <<item, parent>> that enter the item: the item is kept and is
\* not being visited
RECURSIVE EntriesFrom(_, _, _)
EntriesFrom(x, p, active) ==
    IF ~Kept(x) \/ x \in active THEN {}
    ELSE {<<x, p>>}
         \cup UNION {EntriesFrom(v[1], v[2], active \cup {x}) : v \in ChildVisits(x, p)}

RootEntries ==
    IF inner.root \in DOMAIN inner.index
       /\ inner.index[inner.root].visibility = "Public"
    THEN EntriesFrom(inner.root, None, {})
    ELSE {}

\* C25: no glob import is ever a forest parent, every item a glob import brings
\* in has as a forest parent the parent of every visit that enters the glob
\* import, through another glob import or under a renaming import too, and a
\* glob import pushes no name.  (A visit that meets the glob import while it is
\* being visited records its parent for the glob import only.)
C25_GlobPassesItsParent ==
    /\ GlobIsNeverAParent
    /\ pc = "ready" =>
          \A site \in GlobbedItems :
              /\ site.x \in DOMAIN visibility_forest
              /\ \A e \in RootEntries :
                    e[1] = site.g => Range(e[2]) \subseteq ParentsOf(site.x)

\* the root has a glob import of inner, inner a glob import of the enum Baz: the
\* variant has the root as a forest parent, and the path crate::First
C25_Witness ==
    /\ pc = "ready"
    /\ \E site \in GlobbedItems :
          /\ KindOf(site.x) = "Variant"
          /\ ParentsOf(site.g) = {inner.root}
          /\ inner.root \in ParentsOf(site.x)
          /\ \E outer \in DOMAIN visibility_forest :
                /\ IsGlobImport(outer)
                /\ outer # site.g
                /\ ParentsOf(outer) = {inner.root}
                /\ [g |-> outer, x |-> site.g] \in GlobbedItems
          /\ <<"crate", "First">> \in Paths(site.x)

\* the glob import of t in m has the parents m and q, and the function x that
\* it brings in has the parent m only
C25_WitnessCut ==
    /\ pc = "ready"
    /\ inner \in GlobCycleSnapshots
    /\ ParentsOf(5) = {2, 3}
    /\ ParentsOf(4) = {2}
    /\ [g |-> 5, x |-> 4] \in GlobbedItems
    /\ Paths(4) = {<<"crate", "m", "x">>}

---------------------------------------------------------------------------
(* C26 *)

\* the name stack that the first k active calls have built from the empty
\* stack, each of them taking off the name it popped and adding the name it
\* pushed: the stack that call k + 1 finds
RECURSIVE StackAfter(_)
StackAfter(k) ==
    IF k = 0 THEN <<>>
    ELSE LET found == StackAfter(k - 1)
             frame == collect_frames[k]
         IN  (IF IsSome(frame.popped_name) /\ found # <<>>
              THEN ButLast(found) ELSE found) \o frame.push_name

\* every active call has popped the name that was on top of the stack it found
PoppedWhatWasFound ==
    \A k \in 1..Len(collect_frames) :
        IsSome(collect_frames[k].popped_name) =>
            /\ StackAfter(k - 1) # <<>>
            /\ collect_frames[k].popped_name = <<Last(StackAfter(k - 1))>>

\* C26: every call of collect_publicly_importable_names leaves the name stack
\* as it found it: while the active calls wait for their callees the stack is
\* what they have built; a callee that returns through the cycle guard or the
\* prune changes nothing; a call that returns after recursing takes off the
\* name it pushed, which is on top, and puts back the name it popped, so the
\* stack is the one it found and no expect or assert_eq of the exit fails; the
\* stack is empty when the enumeration ends.
C26_StackRestored ==
    /\ [](Enumerating => stack = StackAfter(Len(collect_frames)) /\ PoppedWhatWasFound)
    /\ [](CallDone => stack = <<>>)
    /\ [][Enumerating /\ Len(collect_frames') = Len(collect_frames)
            /\ pc' # "panicked" => stack' = stack]_vars
    /\ [][Enumerating /\ Len(collect_frames') < Len(collect_frames) =>
            /\ pc' # "panicked"
            /\ stack' = StackAfter(Len(collect_frames) - 1)]_vars

\* a call for a renaming import is about to return: it has replaced the name
\* it found by its own, and a call above it has added a name
C26_Witness ==
    /\ Enumerating
    /\ Len(collect_frames) >= 3
    /\ Last(collect_frames).todo = <<>>
    /\ Len(stack) >= 2
    /\ output # <<>>
    /\ \E k \in 1..Len(collect_frames) :
          /\ IsSome(collect_frames[k].popped_name)
          /\ collect_frames[k].popped_name # collect_frames[k].push_name
          /\ KindOf(collect_frames[k].id) = "Import"

---------------------------------------------------------------------------
(* C27 *)

\* a caller's publicly_importable_names is about to start or is running
Calling == pc \in {"ready", "call"}

\* C27: publicly_importable_names(id) completes, whatever the kind of the item:
\* no step of a call panics.
C27_CallNeverPanics == [][Calling => pc' # "panicked"]_vars

\* publicly_importable_names of a non-glob import has panicked on entry, with
\* nothing on the stack: `no name to pop`
C27_PanicOnImport ==
    /\ pc = "panicked"
    /\ call_id # None
    /\ Unwrap(call_id) \in DOMAIN visibility_forest
    /\ KindOf(Unwrap(call_id)) = "Import"
    /\ ~inner.index[Unwrap(call_id)].inner.glob
    /\ inner.index[Unwrap(call_id)].visibility = "Public"
    /\ stack = <<>>
    /\ collect_frames = <<>>
    /\ already_visited_ids = {Unwrap(call_id)}

\* what does hold: a call panics only where a non-glob import is entered with
\* an empty stack, which is the case of every call on a non-glob import; a
\* call on an alias, on an id that the index lacks or on an item without a
\* name completes
C27_OnlyImportsPanic ==
    /\ [][Calling /\ pc' = "panicked" =>
            /\ stack' = <<>>
            /\ \E i \in already_visited_ids' :
                  /\ KindOf(i) = "Import"
                  /\ ~inner.index[i].inner.glob
                  /\ \/ i = Unwrap(call_id')
                     \/ inner.index[Unwrap(call_id')].name = None]_vars
    /\ [][pc = "ready" /\ pc' = "call" =>
            \/ Unwrap(call_id') \notin DOMAIN inner.index
            \/ KindOf(Unwrap(call_id')) # "Import"
            \/ inner.index[Unwrap(call_id')].inner.glob]_vars
    /\ [][pc = "ready" /\ call_id' # None /\ Unwrap(call_id') \in DOMAIN inner.index
            /\ KindOf(Unwrap(call_id')) = "Import"
            /\ ~inner.index[Unwrap(call_id')].inner.glob => pc' = "panicked"]_vars

\* calls on an alias and on an id that the index lacks have returned
C27_WitnessCompleted ==
    /\ pc = "ready"
    /\ calls_made = 2
    /\ IsSome(last_call.id)
    /\ Unwrap(last_call.id) \in DOMAIN inner.index
    /\ KindOf(Unwrap(last_call.id)) = "Typedef"
    /\ last_call.paths # <<>>

---------------------------------------------------------------------------
(* C28: placeholders and the traits of the snapshot *)

\* C28: no id of manually_inlined_builtin_traits is a key of the item index of
\* the snapshot: a placeholder stands only for a trait the snapshot lacks.
C28_PlaceholderNeverShadows ==
    DOMAIN manually_inlined_builtin_traits \cap DOMAIN inner.index = {}

\* `pub trait Clone { fn clone(); }  impl Clone for S {}` with the summaries
\* rustdoc writes: the trait 4 of the snapshot, which has a member and a bound,
\* has a placeholder under its own id, which has neither
C28_PlaceholderShadowsLocalTrait ==
    /\ 4 \in DOMAIN manually_inlined_builtin_traits
    /\ 4 \in DOMAIN inner.index
    /\ inner.index[4].inner.kind = "Trait"
    /\ inner.index[4].name = Some("Clone")
    /\ inner.index[4].inner.items # <<>>
    /\ manually_inlined_builtin_traits[4].name = Some("Clone")
    /\ manually_inlined_builtin_traits[4].inner.items = <<>>

---------------------------------------------------------------------------
(* C29: the placeholders of the built-in traits *)

\* the 14 names of the static table, and its auto and unsafe traits
TableNames ==
    {"Debug", "Clone", "Copy", "PartialOrd", "Ord", "PartialEq", "Eq", "Hash",
     "Send", "Sync", "Unpin", "RefUnwindSafe", "UnwindSafe", "Sized"}

AutoTraits == {"Send", "Sync", "Unpin", "RefUnwindSafe", "UnwindSafe"}

UnsafeTraits == {"Send", "Sync"}

\* the trait references of the Impl items of the index whose name is in the
\* table and whose id has a summary
BuiltinReferences ==
    {r \in UNION {Range(inner.index[i].inner.trait_) :
                    i \in {j \in DOMAIN inner.index : inner.index[j].inner.kind = "Impl"}} :
        r.name \in TableNames /\ r.id \in DOMAIN inner.paths}

\* entry is the placeholder of the reference r
PlaceholderOf(entry, r) ==
    /\ entry.id = r.id
    /\ entry.name = Some(r.name)
    /\ entry.crate_id = inner.paths[r.id].crate_id
    /\ entry.visibility = "Public"
    /\ entry.inner.kind = "Trait"
    /\ entry.inner.is_auto = (r.name \in AutoTraits)
    /\ entry.inner.is_unsafe = (r.name \in UnsafeTraits)
    /\ entry.inner.items = <<>>
    /\ entry.inner.generics = [params |-> <<>>]
    /\ entry.inner.bounds = <<>>

\* the placeholders are those of the references
PlaceholdersBuilt ==
    /\ DOMAIN manually_inlined_builtin_traits = {r.id : r \in BuiltinReferences}
    /\ \A id \in DOMAIN manually_inlined_builtin_traits :
          \E r \in BuiltinReferences :
              r.id = id /\ PlaceholderOf(manually_inlined_builtin_traits[id], r)

\* C29: manually_inlined_builtin_traits, empty until the forest is complete, is
\* built in one step and stays as built. It then has an entry for an id iff an
\* Impl item of the index has a trait reference with that id, a name of the
\* table and a summary in paths; the entry is a Public Trait item with the id
\* and the name of such a reference, the crate id of the summary, the auto and
\* unsafe flags of the table's row, and no members, generics or bounds. The
\* item index of the snapshot never changes.
C29_PlaceholdersOfBuiltinTraits ==
    /\ [](pc \in {"new", "forest"} => manually_inlined_builtin_traits = <<>>)
    /\ [][pc = "forest" /\ pc' = "imports" => PlaceholdersBuilt']_vars
    /\ [][~(pc = "forest" /\ pc' = "imports") =>
            manually_inlined_builtin_traits' = manually_inlined_builtin_traits]_vars
    /\ [][inner' = inner]_vars

\* `impl Clone for S {}` and `unsafe impl Send for S {}`, both traits of other
\* crates with a summary: two placeholders, one of them auto and unsafe, while
\* the trait of this crate has none
C29_Witness ==
    /\ pc = "ready"
    /\ DOMAIN manually_inlined_builtin_traits = {10, 11}
    /\ manually_inlined_builtin_traits[10].name = Some("Send")
    /\ manually_inlined_builtin_traits[10].inner.is_unsafe
    /\ manually_inlined_builtin_traits[10].crate_id = 1
    /\ manually_inlined_builtin_traits[11].name = Some("Clone")
    /\ ~manually_inlined_builtin_traits[11].inner.is_auto
    /\ manually_inlined_builtin_traits[11].crate_id = 2
    /\ 4 \in DOMAIN inner.index

\* no placeholder for a trait the table lacks (Display, with a summary), nor
\* for a trait of the table without a summary (Send)
C29_WitnessSkipped ==
    /\ pc = "ready"
    /\ manually_inlined_builtin_traits = <<>>
    /\ 11 \in DOMAIN inner.paths
    /\ 10 \notin DOMAIN inner.paths
    /\ \E i, j \in DOMAIN inner.index :
          /\ inner.index[i].inner.kind = "Impl"
          /\ inner.index[j].inner.kind = "Impl"
          /\ inner.index[i].inner.trait_ = Some([name |-> "Display", id |-> 11])
          /\ inner.index[j].inner.trait_ = Some([name |-> "Sync", id |-> 10])

\* one trait that two impl blocks name Clone and Debug: the one placeholder
\* carries the name of one of the two references
C29_WitnessTwoNames ==
    /\ pc = "ready"
    /\ DOMAIN manually_inlined_builtin_traits = {11}
    /\ manually_inlined_builtin_traits[11].name = Some("Debug")
    /\ \E r \in BuiltinReferences : r.id = 11 /\ r.name = "Clone"

---------------------------------------------------------------------------
(* C30: the paths of an impl block *)

\* the impl blocks i attached to a publicly reachable struct, enum or union o
AttachedImpls ==
    {[i |-> i, o |-> o] :
        <<i, o>> \in {io \in (DOMAIN inner.index) \X (Owners \cap DOMAIN visibility_forest) :
                        KindOf(io[1]) = "Impl" /\ io[1] \in BlocksOf(io[2])}}

\* the item is filed under every path of the owner o
FiledWith(item, o) ==
    \A p \in Paths(o) : p \in DOMAIN imports_index /\ item \in ItemsAt(p)

\* C30 as stated: for an impl block attached to a publicly reachable struct,
\* enum or union, publicly_importable_names(impl) equals
\* publicly_importable_names(owner), and the import index lists the block and
\* the owning type under each path of the owner.
C30_ImplListedNextToOwnerAsStated ==
    pc = "ready" =>
        \A site \in AttachedImpls :
            /\ Names(site.i) = Names(site.o)
            /\ FiledWith(site.i, site.o)
            /\ FiledWith(site.o, site.o)

\* C30: for an impl block attached to a publicly reachable struct, enum or
\* union, publicly_importable_names(impl) equals
\* publicly_importable_names(owner) unless the block's visibility is
\* restricted, and the import index lists the block under each path of the
\* owner; it lists the owner under the same paths exactly when the owner is a
\* struct or an enum, a union being none of the seven kinds the import index
\* files. A block of restricted visibility has no path.
C30_ImplListedUnderOwnerPaths ==
    pc = "ready" =>
        \A site \in AttachedImpls :
            IF inner.index[site.i].visibility = "Restricted"
            THEN Names(site.i) = [panic |-> FALSE, paths |-> <<>>]
            ELSE /\ Names(site.i) = Names(site.o)
                 /\ FiledWith(site.i, site.o)
                 /\ \A p \in Paths(site.o) :
                       site.o \in ItemsAt(p) <=> KindOf(site.o) # "Union"

\* a struct or an enum with two paths (its own and that of an alias or of a
\* renaming import): its impl block is filed next to it under both
C30_Witness ==
    /\ pc = "ready"
    /\ \E site \in AttachedImpls :
          /\ KindOf(site.o) \in {"Struct", "Enum"}
          /\ Cardinality(Paths(site.o)) = 2
          /\ Names(site.i) = Names(site.o)
          /\ \A p \in Paths(site.o) : {site.i, site.o} \subseteq ItemsAt(p)

\* a union with a path: its impl block is filed under the path, the union is not
C30_WitnessUnion ==
    /\ pc = "ready"
    /\ \E site \in AttachedImpls :
          /\ KindOf(site.o) = "Union"
          /\ Paths(site.o) # {}
          /\ Names(site.i) = Names(site.o)
          /\ \A p \in Paths(site.o) : site.i \in ItemsAt(p) /\ site.o \notin ItemsAt(p)

===========================================================================
